---- MODULE Spec2Model ----
(***************************************************************************)
(* GlobeSurfaceTileProvider (Source/Scene/GlobeSurfaceTileProvider.js):    *)
(* renderability back-references, per-frame bucketing of shown tiles, the  *)
(* draw-command assembler / imagery compositor, and the visibility and     *)
(* distance evaluation of a tile.                                          *)
(*                                                                         *)
(* Numbers with a fractional part in the source are kept in tenths         *)
(* (alpha 1.0 is 10, alpha 0.5 is 5).  "undefined" is 0 for tile           *)
(* references and the string "undefined" elsewhere.                        *)
(***************************************************************************)
EXTENDS Integers, Sequences, FiniteSets, TLC

\* ------------------------------------------------------------------ bounds

\* Depth of the quadtree branch that is modelled: tile 1 is a level-zero
\* tile, tile t + 1 is a child of tile t.
NumTiles == 3

\* Number of imagery layers in the layer collection.
NumLayers == 2

\* Cap on the number of TileImagery entries attached to the surface, over all tiles.
MaxImagery == 3

\* Cap on the number of showTileThisFrame calls between two beginUpdate calls.
MaxShown == 2

\* ContextLimits.maximumTextureImageUnits of the device.
MaximumTextureImageUnits == 3

\* Largest terrain height of a provider's data; heights are 0..MaxHeight.
MaxHeight == 1

\* Largest frameState.terrainExaggeration.
MaxExaggeration == 2

\* Largest height of the camera above the ellipsoid.
MaxCameraHeight == 1

\* Largest distance TileBoundingRegion.distanceToCamera reports.
MaxDistance == 0

\* Cap on the number of mesh, terrainData and _bvh values the tiles hold together.
MaxSources == 2

\* The texture coordinate 1.0, in halves of CesiumMath.EPSILON4.
MaxUV == 3

\* Cap on the number of frames the host renders.
MaxFrames == 2

\* Cap on the number of times the fill mesh of a tile is built.
MaxBuilds == 2

\* Largest referenceCount of a shared index buffer.
MaxReferences == 3

\* The _createTileImagerySkeletons calls that create TileImagery.
MaxSkeletonCalls == 2

\* The TileImagery one _createTileImagerySkeletons call creates at most.
MaxSkeletons == 2

\* ------------------------------------------------------------------ constants

RENDER_NOTHING == 0

RENDER_ANCESTOR_SUBSET == 1

CREATE_FILL_TILE == 2

MissingTileStrategy == {RENDER_NOTHING, RENDER_ANCESTOR_SUBSET, CREATE_FILL_TILE}

\* this.baseColor = new Color(0.0, 0.0, 0.5, 1.0), in tenths
BaseColor == <<0, 0, 5, 10>>

\* var otherPassesInitialColor = new Cartesian4(0.0, 0.0, 0.0, 0.0)
otherPassesInitialColor == <<0, 0, 0, 0>>

\* this._renderState: depth test LESS, no blending
RenderStateOpaque == [depthFunc |-> "LESS", blending |-> "none"]

\* this._blendRenderState: depth test LESS_OR_EQUAL, alpha blending
RenderStateBlend == [depthFunc |-> "LESS_OR_EQUAL", blending |-> "ALPHA_BLEND"]

\* ------------------------------------------------------------------ quadtree

Tiles == 1..NumTiles

Layers == 1..NumLayers

\* tile.parent; 0 where the tile is a level-zero tile
Parent(t) == t - 1

\* the strict ancestors of a tile
Ancestors(t) == 1..(t - 1)

\* ------------------------------------------------------------------ state

VARIABLES
    renderableTile,              \* tile.data.renderableTile, 0 when undefined
    renderableTileSubset,        \* tile.data.renderableTileSubset
    imagery,                     \* tile.data.imagery: the ordered TileImagery list
    layers,                      \* the settings of each ImageryLayer
    tilesToRenderByTextureCount, \* this._tilesToRenderByTextureCount
    usedDrawCommands,            \* this._usedDrawCommands
    drawCommands,                \* this._drawCommands
    uniformMaps,                 \* this._uniformMaps: the pool index each was created for
    commandList,                 \* frameState.commandList of the last endUpdate: pool indices
    missingTileStrategy,         \* this.missingTileStrategy
    hasWaterMask,                \* this.hasWaterMask
    oceanNormalMap,              \* defined(this.oceanNormalMap)
    waterMaskTexture,            \* defined(tile.data.waterMaskTexture)
    vertexArray,                 \* defined(tile.data.vertexArray), with tile.data.mesh
    fillMesh,                    \* defined(tile.data.fillMesh), with its fillVertexArray
    threw,                       \* the exception the last endUpdate ended with, or "none"
    terrain,                     \* tile.data: whether defined, and its mesh, terrainData, _bvh
    tileBoundingRegion,          \* tile.data.tileBoundingRegion and its two heights
    boundingVolumeSourceTile,    \* tile.data.boundingVolumeSourceTile, 0 when undefined
    orientedBoundingBox,         \* tile.data.orientedBoundingBox: the heights it was built from
    occludeePointInScaledSpace,  \* defined(tile.data.occludeePointInScaledSpace)
    isClipped,                   \* tile.isClipped
    distance,                    \* tile._distance
    clippingPlanes,              \* this._clippingPlanes: "undefined", "disabled" or "enabled"
    everResolved,                \* whether updateTileBoundingRegion ever found heights for the tile
    lastCall,                    \* the last computeDistanceToTile or computeTileVisibility call
    frameNumber,                 \* frameState.frameNumber, counted from the first frame
    framePhase,                  \* where the host is in a frame: "idle" outside one, "initialized", "updating"
    layerIndex,                  \* imageryLayer._layerIndex of each layer
    shownLayers,                 \* the layers of this._imageryLayers whose show is true
    layerOrderChanged,           \* this._layerOrderChanged
    vertexArraysToDestroy,       \* this._vertexArraysToDestroy
    destroyedVertexArrays,       \* the vertex arrays destroyed so far, and the hook that did it
    indexBuffer,                 \* the index buffer the queued vertex arrays share
    edgeTileVertices,            \* what the meshes of tile.edgeTiles yield along each edge
    edgeDetails,                 \* westScratch, southScratch, eastScratch, northScratch
    lastFillMesh,                \* the mesh built by the last createFillTile
    tileVerticesScratch,         \* tileVerticesScratch, line 1570
    fillBuilds,                  \* how often createFillTile has built the mesh
    pickCommandList,             \* frameState.commandList of the last updateForPick: pool indices
    lastSelectionResultFrame,    \* tile._lastSelectionResultFrame of the quadtree tiles selected so far
    lastSelectionResult,         \* tile._lastSelectionResult of the same tiles
    edgeTiles,                   \* the last findRenderedTiles call of getEdgeVertices and its result
    loadedCallbacks,             \* tile._loadedCallbacks under the layer indices: layer and tileImageriesToFree
    tileState,                   \* tile.state
    freedImagery,                \* the TileImagery of each tile whose freeResources was called
    skeletonCalls                \* how many _createTileImagerySkeletons calls have created TileImagery

drawVars == <<renderableTile, renderableTileSubset, imagery, layers, tilesToRenderByTextureCount,
              usedDrawCommands, drawCommands, uniformMaps, commandList, missingTileStrategy,
              hasWaterMask, oceanNormalMap, waterMaskTexture, vertexArray,
              fillMesh, threw>>

visVars == <<terrain, tileBoundingRegion, boundingVolumeSourceTile,
             orientedBoundingBox, occludeePointInScaledSpace, isClipped, distance,
             clippingPlanes, everResolved, lastCall>>

hostVars == <<frameNumber, framePhase, layerIndex, shownLayers, layerOrderChanged,
              vertexArraysToDestroy, destroyedVertexArrays, indexBuffer>>

fillVars == <<edgeTileVertices, edgeDetails, lastFillMesh, tileVerticesScratch,
              fillBuilds>>

reloadVars == <<loadedCallbacks, tileState, freedImagery, skeletonCalls>>

otherVars == <<pickCommandList, lastSelectionResultFrame, lastSelectionResult,
               edgeTiles, reloadVars>>

vars == <<drawVars, visVars, hostVars, fillVars, otherVars>>

\* ------------------------------------------------------------------ imagery layers

\* ImageryLayer defaults: alpha 1.0, brightness 1.0, contrast 1.0, hue 0.0,
\* saturation 1.0, gamma 1.0, no split
DefaultLayer ==
    [alpha |-> 10, brightness |-> 10, contrast |-> 10, hue |-> 0,
     saturation |-> 10, gamma |-> 10, splitDirection |-> 0]

\* The layer settings a layer is given at construction.
LayerPalette ==
    { DefaultLayer,
      [DefaultLayer EXCEPT !.alpha = 0],
      [DefaultLayer EXCEPT !.alpha = 5],
      [DefaultLayer EXCEPT !.brightness = 5],
      [DefaultLayer EXCEPT !.contrast = 5],
      [DefaultLayer EXCEPT !.hue = 1],
      [DefaultLayer EXCEPT !.saturation = 5],
      [DefaultLayer EXCEPT !.gamma = 20],
      [DefaultLayer EXCEPT !.splitDirection = 1] }

\* A TileImagery: the layer of its imagery, and whether readyImagery is defined
\* (otherwise only loadingImagery is).
TileImagery == [layer : Layers, ready : BOOLEAN]

\* 1.0 / imageryLayer.gamma, in tenths
OneOverGamma(gamma) == 100 \div gamma

\* ------------------------------------------------------------------ per-frame hooks

\* The largest number of TileImagery entries one tile can hold.
MaxTextureCount == MaxImagery + NumLayers

\* An entry of this._tilesToRenderByTextureCount that was never assigned.
UndefinedTileSet == [defined |-> FALSE, tiles |-> <<>>]

\* showTileThisFrame, lines 707-714: the number of TileImagery entries of the
\* list with a ready image whose layer is not fully transparent
RECURSIVE ReadyTextureCount(_, _)
ReadyTextureCount(tileImageryCollection, i) ==
    IF i > Len(tileImageryCollection) THEN 0
    ELSE (IF tileImageryCollection[i].ready
             /\ layers[tileImageryCollection[i].layer].alpha # 0
          THEN 1 ELSE 0)
         + ReadyTextureCount(tileImageryCollection, i + 1)

\* The number of tiles queued since the last beginUpdate.
RECURSIVE QueuedFrom(_)
QueuedFrom(k) ==
    IF k > MaxTextureCount THEN 0
    ELSE Len(tilesToRenderByTextureCount[k].tiles) + QueuedFrom(k + 1)

\* 2 to the power n
RECURSIVE Pow2(_)
Pow2(n) == IF n = 0 THEN 1 ELSE 2 * Pow2(n - 1)

\* tile.rectangle: the level-zero tile spans Pow2(NumTiles - 1) units each way,
\* tile t + 1 is the northeast child of tile t for odd t and the southeast child
\* for even t.
RECURSIVE Rectangle(_)
Rectangle(tile) ==
    IF tile = 1
    THEN [west |-> 0, south |-> 0,
          east |-> Pow2(NumTiles - 1), north |-> Pow2(NumTiles - 1)]
    ELSE LET parent == Rectangle(tile - 1)
             half == (parent.east - parent.west) \div 2
         IN  IF (tile - 1) % 2 = 1
             THEN [parent EXCEPT !.west = @ + half, !.south = @ + half]
             ELSE [parent EXCEPT !.west = @ + half, !.north = @ - half]

\* The texture coordinate 1.0 of a subset: x, y, z and w of a
\* renderableTileSubset are in units of 1 / SubsetOne.
SubsetOne == Pow2(NumTiles - 1)

\* A Cartesian4
Cartesian4(x, y, z, w) == [x |-> x, y |-> y, z |-> z, w |-> w]

\* The renderableTileSubset of a tile that has not deferred yet.
NoSubset == Cartesian4(0, 0, 0, 0)

\* Faulty variant of SubsetsAfterShow: the subset is computed only for a tile
\* that has none yet.
SubsetsAfterFirstShow(tile, nearestRenderableTile) ==
    IF nearestRenderableTile # 0 /\ nearestRenderableTile # tile
       /\ renderableTileSubset[tile] = NoSubset
    THEN LET myRectangle == Rectangle(tile)
             ancestorRectangle == Rectangle(nearestRenderableTile)
             width == ancestorRectangle.east - ancestorRectangle.west
             height == ancestorRectangle.north - ancestorRectangle.south
         IN  [renderableTileSubset EXCEPT ![tile] =
                 Cartesian4(
                     ((myRectangle.west - ancestorRectangle.west) * SubsetOne) \div width,
                     ((myRectangle.south - ancestorRectangle.south) * SubsetOne) \div height,
                     ((myRectangle.east - ancestorRectangle.west) * SubsetOne) \div width,
                     ((myRectangle.north - ancestorRectangle.south) * SubsetOne) \div height)]
    ELSE renderableTileSubset

\* showTileThisFrame, lines 732-742: the subsets of all tiles after the call
SubsetsAfterShow(tile, nearestRenderableTile) ==
    IF nearestRenderableTile # 0 /\ nearestRenderableTile # tile
    THEN LET myRectangle == Rectangle(tile)
             ancestorRectangle == Rectangle(nearestRenderableTile)
             width == ancestorRectangle.east - ancestorRectangle.west
             height == ancestorRectangle.north - ancestorRectangle.south
         IN  [renderableTileSubset EXCEPT ![tile] =
                 Cartesian4(
                     ((myRectangle.west - ancestorRectangle.west) * SubsetOne) \div width,
                     ((myRectangle.south - ancestorRectangle.south) * SubsetOne) \div height,
                     ((myRectangle.east - ancestorRectangle.west) * SubsetOne) \div width,
                     ((myRectangle.north - ancestorRectangle.south) * SubsetOne) \div height)]
    ELSE renderableTileSubset

\* showTileThisFrame, lines 725-730: the back-references of all tiles after the call
RenderableTilesAfterShow(tile, nearestRenderableTile) ==
    IF nearestRenderableTile # 0 /\ nearestRenderableTile # tile
    THEN [[renderableTile EXCEPT ![tile] = nearestRenderableTile]
             EXCEPT ![nearestRenderableTile] = 0]
    ELSE [renderableTile EXCEPT ![tile] = 0]

\* GlobeSurfaceTileProvider.prototype.showTileThisFrame
showTileThisFrame(tile, nearestRenderableTile) ==
    /\ QueuedFrom(0) < MaxShown
    /\ LET readyTextureCount == ReadyTextureCount(imagery[tile], 1)
           tileSet == tilesToRenderByTextureCount[readyTextureCount]
       IN tilesToRenderByTextureCount' =
              [tilesToRenderByTextureCount EXCEPT ![readyTextureCount] =
                   [defined |-> TRUE, tiles |-> Append(tileSet.tiles, tile)]]
    /\ renderableTile' = RenderableTilesAfterShow(tile, nearestRenderableTile)
    /\ renderableTileSubset' = SubsetsAfterShow(tile, nearestRenderableTile)
    /\ UNCHANGED <<imagery, layers, usedDrawCommands, drawCommands, uniformMaps, commandList,
                   missingTileStrategy, hasWaterMask, oceanNormalMap,
                   waterMaskTexture, vertexArray, fillMesh, threw,
                   visVars, hostVars, fillVars, otherVars>>

\* GlobeSurfaceTileProvider.prototype.beginUpdate
beginUpdate ==
    /\ tilesToRenderByTextureCount' =
           [k \in 0..MaxTextureCount |->
               [defined |-> tilesToRenderByTextureCount[k].defined, tiles |-> <<>>]]
    /\ usedDrawCommands' = 0
    /\ framePhase' = "updating"
    /\ UNCHANGED <<renderableTile, renderableTileSubset, imagery, layers, drawCommands, uniformMaps, commandList,
                   missingTileStrategy, hasWaterMask, oceanNormalMap,
                   waterMaskTexture, vertexArray, fillMesh, threw,
                   frameNumber, layerIndex, shownLayers, layerOrderChanged,
                   vertexArraysToDestroy, indexBuffer, destroyedVertexArrays, visVars, fillVars, otherVars>>

\* ------------------------------------------------------------------ draw command assembly

\* Faulty variant of MaxTextures: the texture units of the water mask and of the
\* ocean normal map are not set aside.
MaxTexturesIgnoringOcean(tile) == MaximumTextureImageUnits

\* addDrawCommandsForTile, lines 1863-1879: the number of imagery textures one
\* command of the tile may carry
MaxTextures(tile) ==
    LET showReflectiveOcean == hasWaterMask /\ waterMaskTexture[tile]
        showOceanWaves == showReflectiveOcean /\ oceanNormalMap
    IN  MaximumTextureImageUnits
            - (IF showReflectiveOcean THEN 1 ELSE 0)
            - (IF showOceanWaves THEN 1 ELSE 0)

\* Faulty variant of SkipsImagery: the test of the layer's alpha is left out.
SkipsOnlyLoading(tileImagery) == ~tileImagery.ready

\* addDrawCommandsForTile, line 2034: the entries the packing loop skips
SkipsImagery(tileImagery) ==
    ~tileImagery.ready \/ layers[tileImagery.layer].alpha = 0

\* Faulty variant of PackTextures: the entries that are skipped count against
\* the budget of the command like the ones that are packed.
RECURSIVE PackCountingSkipped(_, _, _, _, _)
PackCountingSkipped(tileImageryCollection, imageryIndex, slots, maxTextures, examined) ==
    IF examined < maxTextures /\ imageryIndex < Len(tileImageryCollection)
    THEN PackCountingSkipped(tileImageryCollection, imageryIndex + 1,
             IF ~tileImageryCollection[imageryIndex + 1].ready
                \/ layers[tileImageryCollection[imageryIndex + 1].layer].alpha = 0
             THEN slots ELSE Append(slots, imageryIndex + 1),
             maxTextures, examined + 1)
    ELSE [imageryIndex |-> imageryIndex, dayTextures |-> slots]

PackTexturesCountingSkipped(tileImageryCollection, imageryIndex, slots, maxTextures) ==
    PackCountingSkipped(tileImageryCollection, imageryIndex, slots, maxTextures, 0)

\* addDrawCommandsForTile, lines 2029-2096: fills the texture slots of one
\* command from imageryIndex (0-based) on; slots holds the 1-based positions,
\* in the imagery list, of the entries packed so far
RECURSIVE PackTextures(_, _, _, _)
PackTextures(tileImageryCollection, imageryIndex, slots, maxTextures) ==
    IF Len(slots) < maxTextures /\ imageryIndex < Len(tileImageryCollection)
    THEN IF SkipsImagery(tileImageryCollection[imageryIndex + 1])
         THEN PackTextures(tileImageryCollection, imageryIndex + 1, slots, maxTextures)
         ELSE PackTextures(tileImageryCollection, imageryIndex + 1,
                           Append(slots, imageryIndex + 1), maxTextures)
    ELSE [imageryIndex |-> imageryIndex, dayTextures |-> slots]

\* Faulty variant of PassRenderState: the later passes keep the opaque state.
PassRenderStateAlwaysOpaque(firstPass) == RenderStateOpaque

\* addDrawCommandsForTile, lines 1948-1952 and 2155-2156: render state of a pass
PassRenderState(firstPass) ==
    IF firstPass THEN RenderStateOpaque ELSE RenderStateBlend

\* addDrawCommandsForTile, lines 1952, 1999 and 2156: initial color of a pass
PassInitialColor(firstPass) ==
    IF firstPass THEN BaseColor ELSE otherPassesInitialColor

\* Faulty variant of ApplyAlpha: the flag is overwritten by each slot instead of
\* accumulated, so that it tells of the last slot only.
ApplyAlphaOfLastSlot(dayTextureAlpha) ==
    Len(dayTextureAlpha) > 0 /\ dayTextureAlpha[Len(dayTextureAlpha)] # 10

\* addDrawCommandsForTile, lines 2067-2068
ApplyAlpha(dayTextureAlpha) ==
    \E k \in DOMAIN dayTextureAlpha : dayTextureAlpha[k] # 10

\* addDrawCommandsForTile, lines 2070-2071
ApplyBrightness(dayTextureBrightness) ==
    \E k \in DOMAIN dayTextureBrightness : dayTextureBrightness[k] # DefaultLayer.brightness

\* addDrawCommandsForTile, lines 2073-2074
ApplyContrast(dayTextureContrast) ==
    \E k \in DOMAIN dayTextureContrast : dayTextureContrast[k] # DefaultLayer.contrast

\* addDrawCommandsForTile, lines 2076-2077
ApplyHue(dayTextureHue) ==
    \E k \in DOMAIN dayTextureHue : dayTextureHue[k] # DefaultLayer.hue

\* addDrawCommandsForTile, lines 2079-2080
ApplySaturation(dayTextureSaturation) ==
    \E k \in DOMAIN dayTextureSaturation :
        dayTextureSaturation[k] # DefaultLayer.saturation

\* addDrawCommandsForTile, lines 2082-2083
ApplyGamma(dayTextureOneOverGamma) ==
    \E k \in DOMAIN dayTextureOneOverGamma :
        dayTextureOneOverGamma[k] # OneOverGamma(DefaultLayer.gamma)

\* addDrawCommandsForTile, lines 2085-2086
ApplySplit(dayTextureSplit) ==
    \E k \in DOMAIN dayTextureSplit : dayTextureSplit[k] # 0

\* addDrawCommandsForTile, lines 1998-2127: the command of one pass.  shown and
\* call record which queued tile, at which position of the queue, the command
\* was assembled for.
DrawCommand(tile, shown, call, subset, firstPass, tileImageryCollection, dayTextures) ==
    LET layerOf(k) == layers[tileImageryCollection[dayTextures[k]].layer]
        slotRange == 1..Len(dayTextures)
        dayTextureAlpha == [k \in slotRange |-> layerOf(k).alpha]
        dayTextureBrightness == [k \in slotRange |-> layerOf(k).brightness]
        dayTextureContrast == [k \in slotRange |-> layerOf(k).contrast]
        dayTextureHue == [k \in slotRange |-> layerOf(k).hue]
        dayTextureSaturation == [k \in slotRange |-> layerOf(k).saturation]
        dayTextureOneOverGamma == [k \in slotRange |-> OneOverGamma(layerOf(k).gamma)]
        dayTextureSplit == [k \in slotRange |-> layerOf(k).splitDirection]
    IN  [owner |-> tile,
         shown |-> shown,
         call |-> call,
         initialColor |-> PassInitialColor(firstPass),
         renderState |-> PassRenderState(firstPass),
         textureCoordinateSubset |-> subset,
         numberOfDayTextures |-> Len(dayTextures),
         dayTextures |-> dayTextures,
         dayTextureAlpha |-> dayTextureAlpha,
         dayTextureBrightness |-> dayTextureBrightness,
         dayTextureContrast |-> dayTextureContrast,
         dayTextureHue |-> dayTextureHue,
         dayTextureSaturation |-> dayTextureSaturation,
         dayTextureOneOverGamma |-> dayTextureOneOverGamma,
         dayTextureSplit |-> dayTextureSplit,
         applyAlpha |-> ApplyAlpha(dayTextureAlpha),
         applyBrightness |-> ApplyBrightness(dayTextureBrightness),
         applyContrast |-> ApplyContrast(dayTextureContrast),
         applyHue |-> ApplyHue(dayTextureHue),
         applySaturation |-> ApplySaturation(dayTextureSaturation),
         applyGamma |-> ApplyGamma(dayTextureOneOverGamma),
         applySplit |-> ApplySplit(dayTextureSplit)]

\* Faulty variant of PushCommand: a new command and a new uniform map are made
\* for every pass, whatever the pool holds.
PushCommandFresh(st, command) ==
    [st EXCEPT
        !.drawCommands = Append(st.drawCommands, command),
        !.uniformMaps = Append(st.uniformMaps, Len(st.drawCommands) + 1),
        !.usedDrawCommands = st.usedDrawCommands + 1,
        !.commandList = Append(st.commandList, Len(st.drawCommands) + 1)]

\* addDrawCommandsForTile, lines 1966-1984 and 2153: takes the next pooled
\* command (growing the pool when it is used up), fills it and pushes it to
\* frameState.commandList
PushCommand(st, command) ==
    [st EXCEPT
        !.drawCommands =
            IF Len(st.drawCommands) <= st.usedDrawCommands
            THEN Append(st.drawCommands, command)
            ELSE [st.drawCommands EXCEPT ![st.usedDrawCommands + 1] = command],
        !.uniformMaps =
            IF Len(st.drawCommands) <= st.usedDrawCommands
            THEN Append(st.uniformMaps, Len(st.drawCommands) + 1)
            ELSE st.uniformMaps,
        !.usedDrawCommands = st.usedDrawCommands + 1,
        !.commandList = Append(st.commandList, st.usedDrawCommands + 1)]

\* addDrawCommandsForTile, lines 1960-2157: the do ... while loop over the passes
RECURSIVE DrawPasses(_, _, _, _, _, _, _)
DrawPasses(tile, shown, call, subset, imageryIndex, firstPass, st) ==
    LET tileImageryCollection == st.imagery[tile]
        packed == PackTextures(tileImageryCollection, imageryIndex, <<>>,
                               MaxTextures(tile))
        command == DrawCommand(tile, shown, call, subset, firstPass,
                               tileImageryCollection, packed.dayTextures)
        pushed == PushCommand(st, command)
    IN  IF packed.imageryIndex < Len(tileImageryCollection)
        THEN DrawPasses(tile, shown, call, subset, packed.imageryIndex, FALSE, pushed)
        ELSE pushed

\* imageryLayerCollection.get(i), with i counted from 1
LayerAt(i) == CHOOSE layer \in Layers : layerIndex[layer] = i

\* createFillTile, lines 1791-1800: the TileImagery skeletons created for a tile
\* whose imagery list is empty, one loading entry for each shown layer of
\* skeletons (what ImageryLayer._createTileImagerySkeletons adds), in the order
\* of the collection from index i on
RECURSIVE ImagerySkeletons(_, _)
ImagerySkeletons(i, skeletons) ==
    IF i > NumLayers THEN <<>>
    ELSE (IF LayerAt(i) \in shownLayers /\ LayerAt(i) \in skeletons
          THEN <<[layer |-> LayerAt(i), ready |-> FALSE]>> ELSE <<>>)
         \o ImagerySkeletons(i + 1, skeletons)

\* createFillTile, lines 1753 and 1788-1823: the fill mesh is (re)built, the
\* skeletons of an empty imagery list are created, and the state machine of every
\* loading entry is run; the entries at the positions of becameReady finish
\* loading in it
createFillTile(tile, st, ext) ==
    LET before == IF Len(st.imagery[tile]) = 0
                  THEN ImagerySkeletons(1, ext.skeletons)
                  ELSE st.imagery[tile]
        after == [i \in 1..Len(before) |->
                     IF ~before[i].ready /\ i \in ext.becameReady
                     THEN [before[i] EXCEPT !.ready = TRUE]
                     ELSE before[i]]
    IN  [st EXCEPT !.fillMesh[tile] = TRUE,
                   !.imagery[tile] = after,
                   !.destroyedVertexArrays =
                       IF st.fillMesh[tile]
                       THEN @ \cup {[tile |-> tile, vertexArray |-> "fillVertexArray",
                                     during |-> "endUpdate"]}
                       ELSE @]

\* addDrawCommandsForTile, lines 1832-2158.  subset is 0 when the parameter is
\* undefined, else the tile whose renderableTileSubset is passed.
RECURSIVE addDrawCommandsForTile(_, _, _, _, _, _)
addDrawCommandsForTile(tile, shown, call, subset, st, ext) ==
    IF renderableTile[tile] # 0 /\ missingTileStrategy = RENDER_ANCESTOR_SUBSET
    THEN addDrawCommandsForTile(renderableTile[tile], shown, call, tile, st, ext)
    ELSE LET filled == IF renderableTile[tile] # 0
                          /\ missingTileStrategy = CREATE_FILL_TILE
                       THEN createFillTile(tile, st, ext)
                       ELSE st
         IN  IF ~vertexArray[tile] /\ ~filled.fillMesh[tile]
             THEN \* line 1882: mesh is undefined, mesh.center throws
                  [filled EXCEPT !.threw = "TypeError"]
             ELSE DrawPasses(tile, shown, call, subset, 0, TRUE, filled)

\* Faulty variant of TilesToRenderFrom: the buckets are walked from the highest
\* texture count down.
RECURSIVE TilesToRenderDescending(_)
TilesToRenderDescending(textureCountIndex) ==
    IF textureCountIndex > MaxTextureCount THEN <<>>
    ELSE TilesToRenderDescending(textureCountIndex + 1)
         \o tilesToRenderByTextureCount[textureCountIndex].tiles

\* endUpdate, lines 504-514: the queued tiles in the order they are drawn
RECURSIVE TilesToRenderFrom(_)
TilesToRenderFrom(textureCountIndex) ==
    IF textureCountIndex > MaxTextureCount THEN <<>>
    ELSE tilesToRenderByTextureCount[textureCountIndex].tiles
         \o TilesToRenderFrom(textureCountIndex + 1)

\* endUpdate, lines 505-514: the loop over the queued tiles; an exception ends it
RECURSIVE DrawTilesFrom(_, _, _, _)
DrawTilesFrom(tilesToRender, tileIndex, st, ext) ==
    IF tileIndex > Len(tilesToRender) \/ st.threw # "none" THEN st
    ELSE DrawTilesFrom(tilesToRender, tileIndex + 1,
             addDrawCommandsForTile(tilesToRender[tileIndex], tilesToRender[tileIndex],
                                    tileIndex, 0, st, ext),
             ext)

\* What createFillTile's calls into the imagery layers can do during one endUpdate.
FillOutcomes ==
    IF missingTileStrategy = CREATE_FILL_TILE
       /\ \E t \in Tiles : renderableTile[t] # 0
    THEN [skeletons : SUBSET Layers, becameReady : SUBSET (1..MaxImagery)]
    ELSE {[skeletons |-> {}, becameReady |-> {}]}

\* GlobeSurfaceTileProvider.prototype.endUpdate, on a frameState whose commandList
\* is empty.  It is taken once per beginUpdate.
endUpdate ==
    /\ usedDrawCommands = 0
    /\ \E ext \in FillOutcomes :
        LET st == DrawTilesFrom(TilesToRenderFrom(0), 1,
                      [drawCommands |-> drawCommands,
                       uniformMaps |-> uniformMaps,
                       usedDrawCommands |-> usedDrawCommands,
                       commandList |-> <<>>,
                       imagery |-> imagery,
                       fillMesh |-> fillMesh,
                       destroyedVertexArrays |-> destroyedVertexArrays,
                       threw |-> "none"], ext)
        IN  /\ drawCommands' = st.drawCommands
            /\ uniformMaps' = st.uniformMaps
            /\ usedDrawCommands' = st.usedDrawCommands
            /\ commandList' = st.commandList
            /\ imagery' = st.imagery
            /\ fillMesh' = st.fillMesh
            /\ destroyedVertexArrays' = st.destroyedVertexArrays
            /\ threw' = st.threw
    /\ framePhase' = "idle"
    /\ UNCHANGED <<renderableTile, renderableTileSubset, layers, tilesToRenderByTextureCount,
                   missingTileStrategy, hasWaterMask, oceanNormalMap,
                   waterMaskTexture, vertexArray, frameNumber,
                   layerIndex, shownLayers, layerOrderChanged, vertexArraysToDestroy, indexBuffer,
                   visVars, fillVars, otherVars>>

\* ------------------------------------------------------------------ tile loading

\* The number of TileImagery entries over all tiles.
RECURSIVE ImageryCountFrom(_)
ImageryCountFrom(t) ==
    IF t > NumTiles THEN 0 ELSE Len(imagery[t]) + ImageryCountFrom(t + 1)

\* GlobeSurfaceTileProvider.prototype.loadTile, lines 560-572: one step of
\* GlobeSurfaceTile.processStateMachine on the tile.  It appends a loading
\* TileImagery of a layer behind the entries of the layers below it, or finishes
\* the load of one entry, or creates the vertex array of the tile's own mesh.
loadTile(tile) ==
    /\ \/ \E layer \in Layers :
            /\ ImageryCountFrom(1) < MaxImagery
            /\ layer \in shownLayers
            /\ \A i \in 1..Len(imagery[tile]) :
                   layerIndex[imagery[tile][i].layer] <= layerIndex[layer]
            /\ imagery' = [imagery EXCEPT ![tile] =
                               Append(@, [layer |-> layer, ready |-> FALSE])]
            /\ UNCHANGED vertexArray
       \/ \E i \in 1..Len(imagery[tile]) :
            /\ ~imagery[tile][i].ready
            /\ imagery' = [imagery EXCEPT ![tile][i].ready = TRUE]
            /\ UNCHANGED vertexArray
       \/ /\ ~vertexArray[tile]
          /\ vertexArray' = [vertexArray EXCEPT ![tile] = TRUE]
          /\ UNCHANGED imagery
    /\ UNCHANGED <<renderableTile, renderableTileSubset, layers, tilesToRenderByTextureCount,
                   usedDrawCommands, drawCommands, uniformMaps, commandList, missingTileStrategy,
                   hasWaterMask, oceanNormalMap, waterMaskTexture, fillMesh, threw,
                   visVars, hostVars, fillVars, otherVars>>

\* ------------------------------------------------------------------ terrain heights

\* Number.NaN among the heights, which are otherwise 0 or more
NaN == -1

\* A pair of heights, of a mesh, a terrainData, a _bvh, a bounding region or a box
Range(minimumHeight, maximumHeight) ==
    [defined |-> TRUE, minimumHeight |-> minimumHeight, maximumHeight |-> maximumHeight]

\* An undefined mesh, terrainData, _bvh, bounding region or box
NoRange == [defined |-> FALSE, minimumHeight |-> 0, maximumHeight |-> 0]

\* A tile whose data is still undefined.
NoTerrain == [data |-> FALSE, mesh |-> NoRange, terrainData |-> NoRange, bvh |-> NoRange]

\* The number of mesh, terrainData and _bvh values held by the tiles from t on.
RECURSIVE SourceCountFrom(_)
SourceCountFrom(t) ==
    IF t > NumTiles THEN 0
    ELSE (IF terrain[t].mesh.defined THEN 1 ELSE 0)
         + (IF terrain[t].terrainData.defined THEN 1 ELSE 0)
         + (IF terrain[t].bvh.defined THEN 1 ELSE 0)
         + SourceCountFrom(t + 1)

\* loadTile, line 564: a step of GlobeSurfaceTile.processStateMachine on the
\* terrain of the tile: the terrain data arrives with its heights, or the mesh
\* is created from the terrain data, or the tile's _bvh is filled in, with
\* heights or with NaN where the provider has none.
processStateMachine(tile, heights) ==
    /\ SourceCountFrom(1) < MaxSources
    /\ \/ /\ ~terrain[tile].terrainData.defined
          /\ terrain' = [terrain EXCEPT ![tile].data = TRUE,
                                        ![tile].terrainData = heights]
       \/ /\ terrain[tile].terrainData.defined
          /\ ~terrain[tile].mesh.defined
          /\ terrain' = [terrain EXCEPT ![tile].mesh = heights]
       \/ /\ ~terrain[tile].bvh.defined
          /\ \E bvh \in {heights, Range(NaN, NaN)} :
                 terrain' = [terrain EXCEPT ![tile].data = TRUE, ![tile].bvh = bvh]
    /\ UNCHANGED <<tileBoundingRegion, boundingVolumeSourceTile, orientedBoundingBox,
                   occludeePointInScaledSpace, isClipped, distance, clippingPlanes,
                   everResolved, lastCall>>
    /\ UNCHANGED <<drawVars, hostVars, fillVars, otherVars>>

\* Faulty variant of TileHeights: the terrain data is asked before the mesh.
TileHeightsTerrainDataFirst(mesh, terrainData, bvh, terrainExaggeration) ==
    IF terrainData.defined
    THEN Range(terrainData.minimumHeight * terrainExaggeration,
               terrainData.maximumHeight * terrainExaggeration)
    ELSE IF mesh.defined THEN mesh
    ELSE IF bvh.defined /\ bvh.minimumHeight # NaN /\ bvh.maximumHeight # NaN
    THEN Range(bvh.minimumHeight * terrainExaggeration,
               bvh.maximumHeight * terrainExaggeration)
    ELSE NoRange

\* Faulty variant of TileHeights: the two heights of the terrain data are
\* assigned crosswise.
TileHeightsCrossed(mesh, terrainData, bvh, terrainExaggeration) ==
    IF mesh.defined THEN mesh
    ELSE IF terrainData.defined
    THEN Range(terrainData.maximumHeight * terrainExaggeration,
               terrainData.minimumHeight * terrainExaggeration)
    ELSE IF bvh.defined /\ bvh.minimumHeight # NaN /\ bvh.maximumHeight # NaN
    THEN Range(bvh.minimumHeight * terrainExaggeration,
               bvh.maximumHeight * terrainExaggeration)
    ELSE NoRange

\* Faulty variant of TileHeights: the _bvh heights are taken without the test
\* that they are numbers.
TileHeightsWithoutNaNTest(mesh, terrainData, bvh, terrainExaggeration) ==
    IF mesh.defined THEN mesh
    ELSE IF terrainData.defined
    THEN Range(terrainData.minimumHeight * terrainExaggeration,
               terrainData.maximumHeight * terrainExaggeration)
    ELSE IF bvh.defined
    THEN Range(bvh.minimumHeight * terrainExaggeration,
               bvh.maximumHeight * terrainExaggeration)
    ELSE NoRange

\* updateTileBoundingRegion, lines 853-873 and 883-902: the heights one tile
\* yields: of its mesh, else of its terrain data, else of its _bvh when neither
\* height is NaN; NoRange when it yields none
TileHeights(mesh, terrainData, bvh, terrainExaggeration) ==
    IF mesh.defined THEN mesh
    ELSE IF terrainData.defined
    THEN Range(terrainData.minimumHeight * terrainExaggeration,
               terrainData.maximumHeight * terrainExaggeration)
    ELSE IF bvh.defined /\ bvh.minimumHeight # NaN /\ bvh.maximumHeight # NaN
    THEN Range(bvh.minimumHeight * terrainExaggeration,
               bvh.maximumHeight * terrainExaggeration)
    ELSE NoRange

\* updateTileBoundingRegion, lines 879-907: the walk from an ancestor upwards
RECURSIVE AncestorHeights(_, _)
AncestorHeights(ancestor, terrainExaggeration) ==
    IF ancestor = 0
    THEN [heightSource |-> 0, minimumHeight |-> NaN, maximumHeight |-> NaN]
    ELSE LET ancestorSurfaceTile == terrain[ancestor]
             heights == TileHeights(ancestorSurfaceTile.mesh,
                                    ancestorSurfaceTile.terrainData,
                                    ancestorSurfaceTile.bvh, terrainExaggeration)
         IN  IF ancestorSurfaceTile.data /\ heights.defined
             THEN [heightSource |-> ancestor,
                   minimumHeight |-> heights.minimumHeight,
                   maximumHeight |-> heights.maximumHeight]
             ELSE AncestorHeights(Parent(ancestor), terrainExaggeration)

\* updateTileBoundingRegion, lines 833-908: the tile the heights come from (0
\* when none has any) and the heights left in the tile's bounding region; bvh is
\* what surfaceTile.getBvh returns
updateTileBoundingRegion(tile, terrainExaggeration, bvh) ==
    LET heights == TileHeights(terrain[tile].mesh, terrain[tile].terrainData, bvh,
                               terrainExaggeration)
    IN  IF heights.defined
        THEN [heightSource |-> tile,
              minimumHeight |-> heights.minimumHeight,
              maximumHeight |-> heights.maximumHeight]
        ELSE AncestorHeights(Parent(tile), terrainExaggeration)

\* ------------------------------------------------------------------ distance and visibility

\* Visibility.NONE, PARTIAL and FULL
Visibility == {"NONE", "PARTIAL", "FULL"}

\* Intersect.OUTSIDE, INTERSECTING and INSIDE
Intersect == {"OUTSIDE", "INTERSECTING", "INSIDE"}

\* computeTileVisibility, lines 637, 641 and 647: an Intersect returned as a
\* Visibility, whose values are the same numbers
IntersectAsVisibility(intersection) ==
    CASE intersection = "OUTSIDE" -> "NONE"
      [] intersection = "INTERSECTING" -> "PARTIAL"
      [] intersection = "INSIDE" -> "FULL"

\* SceneMode
SceneModes == {"SCENE3D", "SCENE2D", "MORPHING"}

\* What CesiumMath.fog may return, in tenths.
FogValues == {5, 10}

\* A distance in meters, as the two digits of its value in base 100000.
Distances == {<<0, d>> : d \in 0..MaxDistance}

\* computeDistanceToTile, line 795: 9999999999.0 in base 100000
SentinelDistance == <<99999, 99999>>

Abs(x) == IF x < 0 THEN -x ELSE x

\* No call yet.
NoCall ==
    [op |-> "none", tile |-> 0, result |-> <<0, 0>>, heightSource |-> 0,
     terrainExaggeration |-> 0, cameraHeight |-> 0, measured |-> NoRange,
     visibility |-> "none", fogEnabled |-> FALSE, fog |-> 0,
     boundingVolume |-> "none", clippingEnabled |-> FALSE,
     planeIntersection |-> "none", cullingIntersection |-> "none",
     scene3D |-> FALSE, ortho3D |-> FALSE, occluders |-> FALSE,
     occludeeDefined |-> FALSE, occludeeTested |-> FALSE, occludeeVisible |-> FALSE]

\* The state of the visibility variables after construction.
VisInitial ==
    /\ terrain = [t \in Tiles |-> NoTerrain]
    /\ tileBoundingRegion = [t \in Tiles |-> NoRange]
    /\ boundingVolumeSourceTile = [t \in Tiles |-> 0]
    /\ orientedBoundingBox = [t \in Tiles |-> NoRange]
    /\ occludeePointInScaledSpace = [t \in Tiles |-> FALSE]
    /\ isClipped = [t \in Tiles |-> TRUE]
    /\ distance = [t \in Tiles |-> <<0, 0>>]
    /\ clippingPlanes = "undefined"
    /\ everResolved = [t \in Tiles |-> FALSE]
    /\ lastCall = NoCall

\* Faulty variant of MeasuredHeights: an ancestor's range is collapsed to the
\* height nearer to the camera.
MeasuredHeightsNearer(tile, source, min, max, cameraHeight) ==
    IF source # tile
    THEN IF Abs(cameraHeight - min) > Abs(cameraHeight - max)
         THEN Range(max, max)
         ELSE Range(min, min)
    ELSE Range(min, max)

\* computeDistanceToTile, lines 812-823: the heights the distance is measured
\* to: the tile's own, or of an ancestor's the one farther from the camera
MeasuredHeights(tile, source, min, max, cameraHeight) ==
    IF source # tile
    THEN IF Abs(cameraHeight - min) > Abs(cameraHeight - max)
         THEN Range(min, min)
         ELSE Range(max, max)
    ELSE Range(min, max)

\* Faulty variant of BoundingVolumeSourceChanged: every resolution counts as a
\* new source.
BoundingVolumeSourceAlwaysChanged(tile, heightSource) == TRUE

\* computeDistanceToTile, line 796: whether the tile that gave the heights is
\* another one than the tile the bounding volume was last computed from
BoundingVolumeSourceChanged(tile, heightSource) ==
    boundingVolumeSourceTile[tile] # heightSource

\* The calls computeDistanceToTile makes into other classes, and the parts of
\* frameState it reads: terrainExaggeration and the camera height, what getBvh
\* returns for a tile without mesh and terrain data heights (the tile's _bvh, or
\* one of computedBvhs that it computes and keeps), whether
\* computeHorizonCullingPoint finds a point, and what distanceToCamera measures.
\* Each is drawn where the code comes to use it; where it does not, the
\* exaggeration is recorded as 0 and the others are the first of their sets.
DistanceOutcomes(tile, computedBvhs) ==
    LET surfaceTile == terrain[tile]
        askBvh == ~surfaceTile.mesh.defined /\ ~surfaceTile.terrainData.defined
        bvhs == IF ~askBvh \/ surfaceTile.bvh.defined THEN {surfaceTile.bvh}
                ELSE computedBvhs
        exaggerations(bvh) ==
            LET heightSource == updateTileBoundingRegion(tile, 1, bvh).heightSource
            IN  IF heightSource # 0 /\ ~terrain[heightSource].mesh.defined
                THEN 1..MaxExaggeration ELSE {0}
        resolved(e, bvh) == updateTileBoundingRegion(tile, e, bvh)
        outcome(e, bvh, cameraHeight, occludeePoint, d) ==
            LET heights == resolved(e, bvh)
                heightSource == heights.heightSource
                newSource == BoundingVolumeSourceChanged(tile, heightSource)
            IN  IF heightSource = 0
                THEN [result |-> SentinelDistance,
                      heightSource |-> 0,
                      bvh |-> bvh,
                      terrainExaggeration |-> e,
                      tileBoundingRegion |-> Range(NaN, NaN),
                      boundingVolumeSourceTile |-> boundingVolumeSourceTile[tile],
                      orientedBoundingBox |-> orientedBoundingBox[tile],
                      occludeePointInScaledSpace |-> occludeePointInScaledSpace[tile],
                      cameraHeight |-> 0,
                      measured |-> NoRange]
                ELSE [result |-> <<0, d>>,
                      heightSource |-> heightSource,
                      bvh |-> bvh,
                      terrainExaggeration |-> e,
                      tileBoundingRegion |->
                          Range(heights.minimumHeight, heights.maximumHeight),
                      boundingVolumeSourceTile |-> heightSource,
                      orientedBoundingBox |->
                          IF newSource
                          THEN Range(heights.minimumHeight, heights.maximumHeight)
                          ELSE orientedBoundingBox[tile],
                      occludeePointInScaledSpace |->
                          IF newSource THEN occludeePoint
                          ELSE occludeePointInScaledSpace[tile],
                      cameraHeight |-> cameraHeight,
                      measured |-> MeasuredHeights(tile, heightSource,
                                       heights.minimumHeight, heights.maximumHeight,
                                       cameraHeight)]
    IN  UNION {
          UNION {
            LET heightSource == resolved(e, bvh).heightSource
                cameraHeights == IF heightSource # 0 /\ heightSource # tile
                                 THEN 0..MaxCameraHeight ELSE {0}
                occludeePoints ==
                    IF heightSource # 0
                       /\ BoundingVolumeSourceChanged(tile, heightSource)
                    THEN BOOLEAN ELSE {FALSE}
                ds == IF heightSource # 0 THEN 0..MaxDistance ELSE {0}
            IN  {outcome(e, bvh, cameraHeight, occludeePoint, d) :
                    cameraHeight \in cameraHeights,
                    occludeePoint \in occludeePoints,
                    d \in ds}
            : e \in exaggerations(bvh)}
          : bvh \in bvhs}

\* The writes of computeDistanceToTile to the tile and its data, lines 787-828,
\* with those of updateTileBoundingRegion, lines 835-847 and 855-900.
DistanceWrites(tile, d) ==
    /\ terrain' = [terrain EXCEPT ![tile].data = TRUE,
                                  ![tile].bvh = IF ~terrain[tile].mesh.defined
                                                   /\ ~terrain[tile].terrainData.defined
                                                THEN d.bvh ELSE @]
    /\ tileBoundingRegion' = [tileBoundingRegion EXCEPT ![tile] = d.tileBoundingRegion]
    /\ boundingVolumeSourceTile' =
           [boundingVolumeSourceTile EXCEPT ![tile] = d.boundingVolumeSourceTile]
    /\ orientedBoundingBox' = [orientedBoundingBox EXCEPT ![tile] = d.orientedBoundingBox]
    /\ occludeePointInScaledSpace' =
           [occludeePointInScaledSpace EXCEPT ![tile] = d.occludeePointInScaledSpace]
    /\ everResolved' = [everResolved EXCEPT ![tile] = @ \/ d.heightSource # 0]

\* GlobeSurfaceTileProvider.prototype.computeDistanceToTile, lines 772-831
computeDistanceToTile(tile, computedBvhs) ==
    \E d \in DistanceOutcomes(tile, computedBvhs) :
        /\ DistanceWrites(tile, d)
        /\ lastCall' = [NoCall EXCEPT !.op = "computeDistanceToTile",
                                      !.tile = tile,
                                      !.result = d.result,
                                      !.heightSource = d.heightSource,
                                      !.terrainExaggeration = d.terrainExaggeration,
                                      !.cameraHeight = d.cameraHeight,
                                      !.measured = d.measured]
        /\ UNCHANGED <<isClipped, distance, clippingPlanes>>
        /\ UNCHANGED <<drawVars, hostVars, fillVars, otherVars>>

\* Faulty variant of FogHides: the tile is hidden only beyond full opacity.
FogHidesBeyondOpaque(fogEnabled, fog) == fogEnabled /\ fog > 10

\* computeTileVisibility, lines 591-592: whether the fog hides the tile; fog is
\* CesiumMath.fog(distance, frameState.fog.density) in tenths
FogHides(fogEnabled, fog) == fogEnabled /\ fog >= 10

\* Faulty variant of TestsOccludee: the orthographic frustum is not told apart.
TestsOccludeeInAnyFrustum(mode, orthographic, occluders) ==
    mode = "SCENE3D" /\ occluders

\* computeTileVisibility, lines 633-634: whether the horizon test applies
TestsOccludee(mode, orthographic, occluders) ==
    LET ortho3D == mode = "SCENE3D" /\ orthographic
    IN  mode = "SCENE3D" /\ ~ortho3D /\ occluders

\* computeTileVisibility, lines 607-617: the bounding volume that is tested
BoundingVolume(tile, mode) ==
    IF mode = "SCENE3D" THEN "orientedBoundingBox"
    ELSE IF mode = "MORPHING" /\ terrain[tile].mesh.defined THEN "union"
    ELSE "boundingSphere"

\* The end of a computeTileVisibility call: what it wrote and returned.
VisibilityReturns(tile, d, clipped, call) ==
    /\ DistanceWrites(tile, d)
    /\ distance' = [distance EXCEPT ![tile] = d.result]
    /\ isClipped' = [isClipped EXCEPT ![tile] = clipped]
    /\ lastCall' = [call EXCEPT !.op = "computeTileVisibility",
                                !.tile = tile,
                                !.result = d.result,
                                !.heightSource = d.heightSource,
                                !.cameraHeight = d.cameraHeight,
                                !.measured = d.measured]
    /\ UNCHANGED clippingPlanes
    /\ UNCHANGED <<drawVars, hostVars, fillVars, otherVars>>

\* GlobeSurfaceTileProvider.prototype.computeTileVisibility, lines 587-648.  The
\* parts of frameState and the results of the tests are drawn where the code
\* comes to read them.
computeTileVisibility(tile, computedBvhs) ==
    \E d \in DistanceOutcomes(tile, computedBvhs) :
    \E fogEnabled \in BOOLEAN :
    \E fog \in IF fogEnabled THEN FogValues ELSE {0} :
        LET fogged == [NoCall EXCEPT !.fogEnabled = fogEnabled, !.fog = fog]
        IN
        IF FogHides(fogEnabled, fog)
        THEN VisibilityReturns(tile, d, isClipped[tile],
                 [fogged EXCEPT !.visibility = "NONE"])
        ELSE IF d.boundingVolumeSourceTile = 0
        THEN VisibilityReturns(tile, d, isClipped[tile],
                 [fogged EXCEPT !.visibility = "PARTIAL"])
        ELSE
        \E mode \in SceneModes :
        \E planeIntersection \in
               IF clippingPlanes = "enabled" THEN Intersect ELSE {"none"} :
            LET clipped == IF clippingPlanes = "enabled"
                           THEN planeIntersection # "INSIDE"
                           ELSE isClipped[tile]
                planes == [fogged EXCEPT
                              !.boundingVolume = BoundingVolume(tile, mode),
                              !.clippingEnabled = clippingPlanes = "enabled",
                              !.planeIntersection = planeIntersection]
            IN
            IF planeIntersection = "OUTSIDE"
            THEN VisibilityReturns(tile, d, clipped,
                     [planes EXCEPT !.visibility = "NONE"])
            ELSE
            \E intersection \in Intersect :
                LET culled == [planes EXCEPT !.cullingIntersection = intersection]
                IN
                IF intersection = "OUTSIDE"
                THEN VisibilityReturns(tile, d, clipped,
                         [culled EXCEPT !.visibility = "NONE"])
                ELSE
                \E orthographic \in IF mode = "SCENE3D" THEN BOOLEAN ELSE {FALSE} :
                \E occluders \in BOOLEAN :
                    LET framed == [culled EXCEPT
                                      !.scene3D = mode = "SCENE3D",
                                      !.ortho3D = mode = "SCENE3D" /\ orthographic,
                                      !.occluders = occluders]
                    IN
                    IF TestsOccludee(mode, orthographic, occluders)
                    THEN IF ~d.occludeePointInScaledSpace
                         THEN VisibilityReturns(tile, d, clipped,
                                  [framed EXCEPT
                                      !.visibility = IntersectAsVisibility(intersection)])
                         ELSE \E visible \in BOOLEAN :
                                  VisibilityReturns(tile, d, clipped,
                                      [framed EXCEPT
                                          !.occludeeDefined = TRUE,
                                          !.occludeeTested = TRUE,
                                          !.occludeeVisible = visible,
                                          !.visibility =
                                              IF visible
                                              THEN IntersectAsVisibility(intersection)
                                              ELSE "NONE"])
                    ELSE VisibilityReturns(tile, d, clipped,
                             [framed EXCEPT
                                 !.occludeeDefined = d.occludeePointInScaledSpace,
                                 !.visibility = IntersectAsVisibility(intersection)])

\* The clippingPlanes setter, lines 368-370
setClippingPlanes(value) ==
    /\ clippingPlanes' = value
    /\ UNCHANGED <<terrain, tileBoundingRegion, boundingVolumeSourceTile,
                   orientedBoundingBox, occludeePointInScaledSpace, isClipped,
                   distance, everResolved, lastCall>>
    /\ UNCHANGED <<drawVars, hostVars, fillVars, otherVars>>

\* ------------------------------------------------------------------ layer events and initialize

\* The host variables after construction, lines 203 and 210, with every layer
\* of the collection shown and indexed in the order it was added.
\* An index buffer: whether referenceCount is defined, its value, and how often
\* destroy() was called on the buffer.
IndexBuffer(counted, referenceCount, destroys) ==
    [counted |-> counted, referenceCount |-> referenceCount, destroys |-> destroys]

\* An index buffer without a reference count that no queued vertex array uses.
NoIndexBuffer == IndexBuffer(FALSE, 0, 0)

HostInitial ==
    /\ frameNumber = 0
    /\ framePhase = "idle"
    /\ layerIndex = [layer \in Layers |-> layer]
    /\ shownLayers = Layers
    /\ layerOrderChanged = FALSE
    /\ vertexArraysToDestroy = <<>>
    /\ destroyedVertexArrays = {}
    /\ indexBuffer = NoIndexBuffer

\* sortTileImageryByLayerIndex, lines 374-386: negative, zero or positive
sortTileImageryByLayerIndex(a, b) == layerIndex[a.layer] - layerIndex[b.layer]

\* The sorted list with one more entry put behind the entries that do not
\* compare greater than it.
RECURSIVE InsertTileImagery(_, _)
InsertTileImagery(sorted, tileImagery) ==
    IF Len(sorted) = 0 THEN <<tileImagery>>
    ELSE IF sortTileImageryByLayerIndex(sorted[Len(sorted)], tileImagery) > 0
    THEN Append(InsertTileImagery(SubSeq(sorted, 1, Len(sorted) - 1), tileImagery),
                sorted[Len(sorted)])
    ELSE Append(sorted, tileImagery)

\* Faulty variant of SortTileImagery: the list is left as it is.
TileImageryAsItIs(tileImageryCollection) == tileImageryCollection

\* initialize, line 436: tile.data.imagery.sort(sortTileImageryByLayerIndex); the
\* entries that compare equal keep their order
RECURSIVE SortTileImagery(_)
SortTileImagery(tileImageryCollection) ==
    IF Len(tileImageryCollection) = 0 THEN <<>>
    ELSE InsertTileImagery(
             SortTileImagery(SubSeq(tileImageryCollection, 1,
                                    Len(tileImageryCollection) - 1)),
             tileImageryCollection[Len(tileImageryCollection)])

\* VertexArray.prototype.destroy, called at line 398, as far as the index buffer
\* goes: a buffer shared by several vertex arrays is left to its reference count
destroy(buffer) == buffer

\* Faulty variant of freeVertexArray: the buffer is destroyed with the first
\* vertex array that is freed.
freeVertexArrayWithBuffer(buffer) ==
    IF buffer.destroys = 0 /\ buffer.counted
    THEN [buffer EXCEPT !.referenceCount = @ - 1, !.destroys = @ + 1]
    ELSE buffer

\* freeVertexArray, lines 396-406: the index buffer of the vertex array after
\* the call; isDestroyed() is true once destroy() was called
freeVertexArray(buffer) ==
    LET indexBuffer0 == destroy(buffer)
    IN  IF indexBuffer0.destroys = 0 /\ indexBuffer0.counted
        THEN [indexBuffer0 EXCEPT !.referenceCount = @ - 1,
                                  !.destroys = IF indexBuffer0.referenceCount - 1 = 0
                                               THEN @ + 1 ELSE @]
        ELSE indexBuffer0

\* initialize, lines 443-447: the index buffer after the loop has freed the
\* vertex arrays of the queue from the j-th on
RECURSIVE FreeFrom(_, _)
FreeFrom(j, buffer) ==
    IF j > Len(vertexArraysToDestroy) THEN buffer
    ELSE FreeFrom(j + 1, freeVertexArray(buffer))

\* GlobeSurfaceTileProvider.prototype.initialize, lines 427-449
initialize ==
    /\ frameNumber < MaxFrames
    /\ frameNumber' = frameNumber + 1
    /\ framePhase' = "initialized"
    /\ layerOrderChanged' = FALSE
    /\ imagery' = IF layerOrderChanged
                  THEN [tile \in Tiles |-> SortTileImagery(imagery[tile])]
                  ELSE imagery
    /\ destroyedVertexArrays' =
           destroyedVertexArrays \cup
               {[tile |-> vertexArraysToDestroy[j].tile,
                 vertexArray |-> vertexArraysToDestroy[j].vertexArray,
                 during |-> "initialize"] : j \in 1..Len(vertexArraysToDestroy)}
    /\ vertexArraysToDestroy' = <<>>
    /\ indexBuffer' = FreeFrom(1, indexBuffer)
    /\ UNCHANGED <<renderableTile, renderableTileSubset, layers, tilesToRenderByTextureCount,
                   usedDrawCommands, drawCommands, uniformMaps, commandList, missingTileStrategy,
                   hasWaterMask, oceanNormalMap, waterMaskTexture, vertexArray,
                   fillMesh, threw, layerIndex, shownLayers, visVars, fillVars, otherVars>>

\* The indices of the layers after the collection has moved a layer to newIndex.
LayerIndicesAfterMove(layer, newIndex) ==
    LET oldIndex == layerIndex[layer]
    IN  [other \in Layers |->
            IF other = layer THEN newIndex
            ELSE IF oldIndex < layerIndex[other] /\ layerIndex[other] <= newIndex
            THEN layerIndex[other] - 1
            ELSE IF newIndex <= layerIndex[other] /\ layerIndex[other] < oldIndex
            THEN layerIndex[other] + 1
            ELSE layerIndex[other]]

\* GlobeSurfaceTileProvider.prototype._onLayerMoved, lines 1091-1094, raised by
\* the collection once it has moved the layer and renumbered its layers
onLayerMoved(layer, newIndex) ==
    /\ newIndex # layerIndex[layer]
    /\ layerIndex' = LayerIndicesAfterMove(layer, newIndex)
    /\ layerOrderChanged' = TRUE
    /\ UNCHANGED <<drawVars, visVars, frameNumber, framePhase, shownLayers, vertexArraysToDestroy, indexBuffer,
                   destroyedVertexArrays, fillVars, otherVars>>

\* _onLayerRemoved, lines 1056-1081: the list without the first run of entries
\* of the layer, looked for from the i-th entry on
RECURSIVE WithoutFirstRun(_, _, _, _)
WithoutFirstRun(tileImageryCollection, layer, i, startIndex) ==
    IF i > Len(tileImageryCollection)
    THEN IF startIndex = 0 THEN tileImageryCollection
         ELSE SubSeq(tileImageryCollection, 1, startIndex - 1)
    ELSE IF tileImageryCollection[i].layer = layer
    THEN WithoutFirstRun(tileImageryCollection, layer, i + 1,
                         IF startIndex = 0 THEN i ELSE startIndex)
    ELSE IF startIndex # 0
    THEN SubSeq(tileImageryCollection, 1, startIndex - 1)
         \o SubSeq(tileImageryCollection, i, Len(tileImageryCollection))
    ELSE WithoutFirstRun(tileImageryCollection, layer, i + 1, startIndex)

\* GlobeSurfaceTileProvider.prototype._onLayerShownOrHidden, lines 1096-1102,
\* with _onLayerAdded (lines 985-1051) and _onLayerRemoved (lines 1053-1089).
\* skeletons holds the loaded tiles for which _createTileImagerySkeletons
\* creates a TileImagery of the layer, which it puts at the end of the list.
onLayerShownOrHidden(layer, show, skeletons) ==
    /\ show = (layer \notin shownLayers)
    /\ IF show
       THEN /\ ImageryCountFrom(1) + Cardinality(skeletons) <= MaxImagery
            /\ shownLayers' = shownLayers \cup {layer}
            /\ imagery' = [tile \in Tiles |->
                              IF tile \in skeletons
                              THEN Append(imagery[tile], [layer |-> layer, ready |-> FALSE])
                              ELSE imagery[tile]]
            /\ layerOrderChanged' = TRUE
       ELSE /\ skeletons = {}
            /\ shownLayers' = shownLayers \ {layer}
            /\ imagery' = [tile \in Tiles |->
                              WithoutFirstRun(imagery[tile], layer, 1, 0)]
            /\ UNCHANGED layerOrderChanged
    /\ UNCHANGED <<renderableTile, renderableTileSubset, layers, tilesToRenderByTextureCount,
                   usedDrawCommands, drawCommands, uniformMaps, commandList, missingTileStrategy,
                   hasWaterMask, oceanNormalMap, waterMaskTexture, vertexArray,
                   fillMesh, threw, frameNumber, framePhase, layerIndex, vertexArraysToDestroy, indexBuffer,
                   destroyedVertexArrays, visVars, fillVars, otherVars>>

\* ------------------------------------------------------------------ fill mesh

\* CesiumMath.EPSILON4, in the unit of the local UV coordinates: half of it
EPSILON4 == 2

\* TileEdge, in the order createFillTile walks the boundary of the tile
Edges == <<"west", "south", "east", "north">>

\* A vertex of tileVertices: its texture coordinates (0 to MaxUV) and its
\* height, in tenths.
Vertex(u, v, height) == [u |-> u, v |-> v, height |-> height]

\* The vertex of an edge at distance p from the corner the edge starts at: the
\* west edge runs from the northwest corner south, the south edge east, the
\* east edge north and the north edge west.
EdgeVertex(edge, p, height) ==
    CASE edge = "west" -> Vertex(0, MaxUV - p, height)
      [] edge = "south" -> Vertex(p, 0, height)
      [] edge = "east" -> Vertex(MaxUV, p, height)
      [] edge = "north" -> Vertex(MaxUV - p, MaxUV, height)

\* A TerrainTileEdgeDetails
EdgeDetails(vertices, minimumHeight, maximumHeight) ==
    [vertices |-> vertices, minimumHeight |-> minimumHeight,
     maximumHeight |-> maximumHeight]

\* A TerrainTileEdgeDetails without vertices
NoEdgeVertices == EdgeDetails(<<>>, 0, 0)

\* The four edges without vertices
NoEdgeHasVertices ==
    [west |-> NoEdgeVertices, south |-> NoEdgeVertices,
     east |-> NoEdgeVertices, north |-> NoEdgeVertices]

\* No mesh built yet.
NoFillMesh ==
    [defined |-> FALSE, vertices |-> <<>>, indices |-> <<>>,
     minimumHeight |-> 0, maximumHeight |-> 0,
     westIndicesSouthToNorth |-> <<>>, southIndicesEastToWest |-> <<>>,
     eastIndicesNorthToSouth |-> <<>>, northIndicesWestToEast |-> <<>>]

\* The fill variables after construction, lines 1566-1570.
FillInitial ==
    /\ edgeTileVertices = NoEdgeHasVertices
    /\ edgeDetails = NoEdgeHasVertices
    /\ lastFillMesh = NoFillMesh
    /\ tileVerticesScratch = <<>>
    /\ fillBuilds = 0

\* TerrainTileEdgeDetails.prototype.clear, called at line 1448: the scratch edge
\* holds no vertex and no heights afterwards
clear(result) == NoEdgeVertices

\* getEdgeVertices, lines 1441-1474: the scratch edge is cleared and the
\* vertices the meshes of the rendered tiles yield are appended to it
getEdgeVertices(collected, result) ==
    LET cleared == clear(result)
    IN  IF Len(collected.vertices) = 0 THEN cleared
        ELSE IF Len(cleared.vertices) = 0 THEN collected
        ELSE EdgeDetails(cleared.vertices \o collected.vertices,
                         IF cleared.minimumHeight < collected.minimumHeight
                         THEN cleared.minimumHeight ELSE collected.minimumHeight,
                         IF cleared.maximumHeight > collected.maximumHeight
                         THEN cleared.maximumHeight ELSE collected.maximumHeight)

\* Faulty variant of EmptiedTileVertices: the scratch array keeps its length.
TileVerticesAsLeft(tileVertices) == tileVertices

\* createFillTile, lines 1630-1631: tileVertices.length = 0
EmptiedTileVertices(tileVertices) == SubSeq(tileVertices, 1, 0)

\* addCornerVertexIfNecessary, lines 1481-1521: tileVertices after the call
addCornerVertexIfNecessary(u, v, height, edge, previousEdge, tileVertices) ==
    LET vertices == edge.vertices
        previousVertices == previousEdge.vertices
    IN  IF Len(vertices) > 0 /\ u = vertices[1].u /\ v = vertices[1].v
        THEN tileVertices
        ELSE IF /\ Len(previousVertices) > 0
                /\ previousVertices[Len(previousVertices)].u = u
                /\ previousVertices[Len(previousVertices)].v = v
        THEN Append(tileVertices, previousVertices[Len(previousVertices)])
        ELSE Append(tileVertices, Vertex(u, v, height))

\* lastU and lastV of addVerticesToFillTile before a vertex was copied
NoLast == [defined |-> FALSE, u |-> 0, v |-> 0]

\* addVerticesToFillTile, lines 1535 and 1555: whether a vertex is very close to
\* the one copied last; the test is false while lastU and lastV are undefined
VeryClose(vertex, last) ==
    /\ last.defined
    /\ Abs(vertex.u - last.u) < EPSILON4
    /\ Abs(vertex.v - last.v) < EPSILON4

\* addVerticesToFillTile, lines 1532-1547: the loop over all but the last vertex,
\* from the i-th vertex on
RECURSIVE CopyAllButLast(_, _, _, _)
CopyAllButLast(vertices, i, last, tileVertices) ==
    IF i >= Len(vertices)
    THEN [tileVertices |-> tileVertices, last |-> last]
    ELSE IF VeryClose(vertices[i], last)
    THEN CopyAllButLast(vertices, i + 1, last, tileVertices)
    ELSE CopyAllButLast(vertices, i + 1,
             [defined |-> TRUE, u |-> vertices[i].u, v |-> vertices[i].v],
             Append(tileVertices, vertices[i]))

\* addVerticesToFillTile, line 1554: whether the texture coordinates are a corner's
IsCorner(vertex) ==
    ~((vertex.u # 0 /\ vertex.u # MaxUV) \/ (vertex.v # 0 /\ vertex.v # MaxUV))

\* addVerticesToFillTile, lines 1523-1564: tileVertices after the call
addVerticesToFillTile(edge, tileVertices) ==
    LET vertices == edge.vertices
        copied == CopyAllButLast(vertices, 1, NoLast, tileVertices)
    IN  IF Len(vertices) > 0 /\ ~IsCorner(vertices[Len(vertices)])
        THEN Append(IF VeryClose(vertices[Len(vertices)], copied.last)
                    THEN SubSeq(copied.tileVertices, 1, Len(copied.tileVertices) - 1)
                    ELSE copied.tileVertices,
                    vertices[Len(vertices)])
        ELSE copied.tileVertices

\* createFillTile, lines 1679-1683: the triangles of the loop, from i on
RECURSIVE FanTriangles(_, _)
FanTriangles(i, vertexCount) ==
    IF i < vertexCount - 2
    THEN <<vertexCount - 1, i, i + 1>> \o FanTriangles(i + 1, vertexCount)
    ELSE <<>>

\* Faulty variant of FillIndices: the triangle that closes the fan is left out.
FillIndicesWithoutClosing(vertexCount) == FanTriangles(0, vertexCount)

\* createFillTile, lines 1673-1687: the indices of the mesh, counted from 0; the
\* array has (vertexCount - 1) * 3 entries and a write behind its end is dropped
FillIndices(vertexCount) ==
    LET i == IF vertexCount > 2 THEN vertexCount - 2 ELSE 0
        written == FanTriangles(0, vertexCount) \o <<vertexCount - 1, i, 0>>
    IN  SubSeq(written, 1, (vertexCount - 1) * 3)

\* createFillTile, lines 1689-1708: the indices from the one down to the other
RECURSIVE IndicesDownTo(_, _)
IndicesDownTo(from, to) ==
    IF from >= to THEN <<from>> \o IndicesDownTo(from - 1, to) ELSE <<>>

\* Faulty variant of MiddleHeight: the minimum height is taken.
MiddleHeightAsMinimum(minimumHeight, maximumHeight) == minimumHeight * 10

\* createFillTile, line 1628, in tenths
MiddleHeight(minimumHeight, maximumHeight) ==
    IF minimumHeight = NaN \/ maximumHeight = NaN THEN NaN
    ELSE (minimumHeight + maximumHeight) * 5

\* The least and the greatest of a set of heights
Least(heights) == CHOOSE h \in heights : \A other \in heights : h <= other
Greatest(heights) == CHOOSE h \in heights : \A other \in heights : h >= other

\* createFillTile, lines 1594-1753: the mesh built from the vertices collected
\* on the four edges and from the tile's bounding region
FillMesh(west, south, east, north, region, scratch) ==
    LET contributing == {edge \in {west, south, east, north} : Len(edge.vertices) > 0}
        hasAnyVertices == contributing # {}
        minimumHeight == IF hasAnyVertices
                         THEN Least({edge.minimumHeight : edge \in contributing})
                         ELSE region.minimumHeight
        maximumHeight == IF hasAnyVertices
                         THEN Greatest({edge.maximumHeight : edge \in contributing})
                         ELSE region.maximumHeight
        middleHeight == MiddleHeight(minimumHeight, maximumHeight)
        northwestIndex == 0
        afterWest == addVerticesToFillTile(west,
                         addCornerVertexIfNecessary(0, MaxUV, middleHeight,
                                                    west, north,
                                                    EmptiedTileVertices(scratch)))
        southwestIndex == Len(afterWest)
        afterSouth == addVerticesToFillTile(south,
                          addCornerVertexIfNecessary(0, 0, middleHeight,
                                                     south, west, afterWest))
        southeastIndex == Len(afterSouth)
        afterEast == addVerticesToFillTile(east,
                         addCornerVertexIfNecessary(MaxUV, 0, middleHeight,
                                                    east, south, afterSouth))
        northeastIndex == Len(afterEast)
        afterNorth == addVerticesToFillTile(north,
                          addCornerVertexIfNecessary(MaxUV, MaxUV, middleHeight,
                                                     north, east, afterEast))
        tileVertices == Append(afterNorth,
                               Vertex(MaxUV \div 2, MaxUV \div 2, middleHeight))
        vertexCount == Len(tileVertices)
        centerIndex == vertexCount - 1
    IN  [defined |-> TRUE,
         vertices |-> tileVertices,
         indices |-> FillIndices(vertexCount),
         minimumHeight |-> minimumHeight,
         maximumHeight |-> maximumHeight,
         westIndicesSouthToNorth |-> IndicesDownTo(southwestIndex, northwestIndex),
         southIndicesEastToWest |-> IndicesDownTo(southeastIndex, southwestIndex),
         eastIndicesNorthToSouth |-> IndicesDownTo(northeastIndex, southeastIndex),
         northIndicesWestToEast |-> <<0>> \o IndicesDownTo(centerIndex - 1, northeastIndex)]

\* createFillTile, lines 1585-1753, for a tile whose data holds a bounding
\* region: getEdgeVertices (lines 1441-1474) clears each scratch edge and fills
\* it with the vertices the meshes of the rendered neighbours yield, and the mesh
\* is built from them.
createFillMesh(tile) ==
    /\ tileBoundingRegion[tile].defined
    /\ fillBuilds < MaxBuilds
    /\ fillBuilds' = fillBuilds + 1
    /\ edgeDetails' = [west |-> getEdgeVertices(edgeTileVertices.west, edgeDetails.west),
                       south |-> getEdgeVertices(edgeTileVertices.south, edgeDetails.south),
                       east |-> getEdgeVertices(edgeTileVertices.east, edgeDetails.east),
                       north |-> getEdgeVertices(edgeTileVertices.north, edgeDetails.north)]
    /\ lastFillMesh' = FillMesh(edgeDetails'.west, edgeDetails'.south,
                                edgeDetails'.east, edgeDetails'.north,
                                tileBoundingRegion[tile], tileVerticesScratch)
    /\ tileVerticesScratch' = lastFillMesh'.vertices
    /\ UNCHANGED <<drawVars, visVars, hostVars, edgeTileVertices, otherVars>>

\* ------------------------------------------------------------------ picking

\* No findRenderedTiles call yet.
NoEdgeTiles == [startTile |-> 0, edge |-> "NONE", tiles |-> <<>>]

\* QuadtreeTileLoadState, as far as the reload goes
QuadtreeTileLoadState == {"DONE", "LOADING"}

\* No entry of tile._loadedCallbacks under a key.
NoCallback == [layer |-> 0, tileImageriesToFree |-> 0]

\* Every tile is done loading, has no loaded-callback and has freed no
\* TileImagery; _createTileImagerySkeletons has created none yet.
ReloadInitial ==
    /\ loadedCallbacks = [tile \in Tiles |-> [layerId \in 1..NumLayers |-> NoCallback]]
    /\ tileState = [tile \in Tiles |-> "DONE"]
    /\ freedImagery = [tile \in Tiles |-> <<>>]
    /\ skeletonCalls = 0

\* No updateForPick call yet, no tile selected yet, no edge tiles looked for.
OtherInitial ==
    /\ pickCommandList = <<>>
    /\ lastSelectionResultFrame = <<>>
    /\ lastSelectionResult = <<>>
    /\ edgeTiles = NoEdgeTiles
    /\ ReloadInitial

\* updateForPick, lines 522-528: the loop that pushes the first
\* _usedDrawCommands commands of the pool, from the i-th on, to commandList
RECURSIVE PickCommandsFrom(_, _)
PickCommandsFrom(i, list) ==
    IF i < usedDrawCommands THEN PickCommandsFrom(i + 1, Append(list, i + 1))
    ELSE list

\* GlobeSurfaceTileProvider.prototype.updateForPick, lines 522-528, on a
\* frameState whose commandList is empty
updateForPick ==
    /\ pickCommandList' = PickCommandsFrom(0, <<>>)
    /\ UNCHANGED <<drawVars, visVars, hostVars, fillVars, lastSelectionResultFrame,
                   lastSelectionResult, edgeTiles, reloadVars>>

\* ------------------------------------------------------------------ edge tiles

\* The tiles of the quadtree findRenderedTiles walks: tile 1 is a level-zero
\* tile, the children of tile t are the tiles 4 * (t - 1) + 2 to 4 * (t - 1) + 5,
\* and 0 is undefined.
southwestChild(tile) == 4 * (tile - 1) + 2

southeastChild(tile) == 4 * (tile - 1) + 3

northwestChild(tile) == 4 * (tile - 1) + 4

northeastChild(tile) == 4 * (tile - 1) + 5

\* tile.parent, undefined for a level-zero tile
QuadtreeParent(tile) == IF tile <= 1 THEN 0 ELSE (tile + 2) \div 4

\* tile._lastSelectionResultFrame, undefined (0) for a tile never selected
SelectionResultFrame(tile) ==
    IF tile \in DOMAIN lastSelectionResultFrame
    THEN lastSelectionResultFrame[tile] ELSE 0

\* tile._lastSelectionResult, NONE for a tile never selected
SelectionResult(tile) ==
    IF tile \in DOMAIN lastSelectionResult THEN lastSelectionResult[tile] ELSE "NONE"

\* findRenderedTiles, lines 1404-1408: the walk from a tile up to the first
\* tile selected in the current frame, undefined (0) when there is none
RECURSIVE WalkUp(_, _)
WalkUp(tile, currentFrameNumber) ==
    IF tile # 0 /\ SelectionResultFrame(tile) # currentFrameNumber
    THEN WalkUp(QuadtreeParent(tile), currentFrameNumber)
    ELSE tile

\* Faulty variant of EdgeChildren: the two children are taken in the other order.
EdgeChildrenReversed(startTile, edge) ==
    CASE edge = "WEST" -> <<northwestChild(startTile), southwestChild(startTile)>>
      [] edge = "EAST" -> <<southeastChild(startTile), northeastChild(startTile)>>
      [] edge = "SOUTH" -> <<southwestChild(startTile), southeastChild(startTile)>>
      [] edge = "NORTH" -> <<northeastChild(startTile), northwestChild(startTile)>>

\* findRenderedTiles, lines 1426-1437: the two children the search goes on
\* with, in the order their results are concatenated
EdgeChildren(startTile, edge) ==
    CASE edge = "WEST" -> <<southwestChild(startTile), northwestChild(startTile)>>
      [] edge = "EAST" -> <<northeastChild(startTile), southeastChild(startTile)>>
      [] edge = "SOUTH" -> <<southeastChild(startTile), southwestChild(startTile)>>
      [] edge = "NORTH" -> <<northwestChild(startTile), northeastChild(startTile)>>

\* findRenderedTiles, lines 1392-1439
RECURSIVE findRenderedTiles(_, _, _, _)
findRenderedTiles(startTile, currentFrameNumber, edge, downOnly) ==
    IF startTile = 0 THEN <<>>
    ELSE IF SelectionResultFrame(startTile) # currentFrameNumber
            \/ SelectionResult(startTile) = "KICKED"
    THEN IF downOnly THEN <<>>
         ELSE LET tile == WalkUp(QuadtreeParent(startTile), currentFrameNumber)
              IN  IF tile # 0 /\ SelectionResult(tile) = "RENDERED"
                  THEN <<tile>> ELSE <<>>
    ELSE IF SelectionResult(startTile) = "RENDERED" THEN <<startTile>>
    ELSE IF SelectionResult(startTile) = "CULLED" THEN <<>>
    ELSE findRenderedTiles(EdgeChildren(startTile, edge)[1], currentFrameNumber,
                           edge, TRUE)
         \o findRenderedTiles(EdgeChildren(startTile, edge)[2], currentFrameNumber,
                              edge, TRUE)

\* quadtree._lastSelectionFrameNumber, line 1583: the frame of the last selection
LastSelectionFrameNumber == 1

\* getEdgeVertices, lines 1443-1446: the rendered tiles along an edge are looked
\* for from the adjacent tile, which is undefined (0) beyond a pole
findEdgeTiles(startingTile, tileEdge) ==
    /\ edgeTiles' = [startTile |-> startingTile, edge |-> tileEdge,
                     tiles |-> findRenderedTiles(startingTile, LastSelectionFrameNumber,
                                                 tileEdge, FALSE)]
    /\ UNCHANGED <<drawVars, visVars, hostVars, fillVars, pickCommandList,
                   lastSelectionResultFrame, lastSelectionResult, reloadVars>>

\* ------------------------------------------------------------------ imagery reload

\* A TileImagery: imagery.imageryLayer of its readyImagery or loadingImagery,
\* whether it is ready, and the _createTileImagerySkeletons call that created
\* it (0: one the tile had when it was loaded)
TileImageryOf(layer, ready, createdBy) ==
    [layer |-> layer, ready |-> ready, createdBy |-> createdBy]

\* layer._createTileImagerySkeletons(tile, terrainProvider, insertionPoint),
\* lines 971 and 1032: the tile's list with the created TileImagery of the layer
\* spliced in at insertionPoint (counted from 0)
createTileImagerySkeletons(tileImageryCollection, layer, insertionPoint, created, call) ==
    LET at == IF insertionPoint > Len(tileImageryCollection)
              THEN Len(tileImageryCollection) ELSE insertionPoint
    IN  SubSeq(tileImageryCollection, 1, at)
        \o [k \in 1..created |-> TileImageryOf(layer, FALSE, call)]
        \o SubSeq(tileImageryCollection, at + 1, Len(tileImageryCollection))

\* _reload, lines 1007-1022: startIndex and tileImageriesToFree after the loop
\* has looked at the entries from index i on (indices counted from 0, -1: none)
RECURSIVE RunOfLayer(_, _, _, _, _)
RunOfLayer(tileImageryCollection, layer, i, startIndex, tileImageriesToFree) ==
    IF i >= Len(tileImageryCollection)
    THEN [startIndex |-> startIndex, tileImageriesToFree |-> tileImageriesToFree]
    ELSE IF tileImageryCollection[i + 1].layer = layer
    THEN RunOfLayer(tileImageryCollection, layer, i + 1,
                    IF startIndex = -1 THEN i ELSE startIndex, tileImageriesToFree + 1)
    ELSE IF startIndex # -1
    THEN [startIndex |-> startIndex, tileImageriesToFree |-> tileImageriesToFree]
    ELSE RunOfLayer(tileImageryCollection, layer, i + 1, startIndex, tileImageriesToFree)

\* _reload, lines 996-1038: the function forEachLoadedTile calls with a tile.
\* st holds the imagery lists, callbacks and states of the tiles and the number
\* of creating _createTileImagerySkeletons calls so far; created is the number
\* of TileImagery the call for this tile creates.
ReloadTile(st, tile, layer, created) ==
    LET run == RunOfLayer(st.imagery[tile], layer, 0, -1, 0)
        insertionPoint == run.startIndex + run.tileImageriesToFree
    IN  IF st.loadedCallbacks[tile][layerIndex[layer]] # NoCallback THEN st
        ELSE IF run.startIndex = -1 THEN st
        ELSE IF created > 0
        THEN [imagery |-> [st.imagery EXCEPT ![tile] =
                              createTileImagerySkeletons(@, layer, insertionPoint, created,
                                                         st.skeletonCalls + 1)],
              loadedCallbacks |-> [st.loadedCallbacks EXCEPT ![tile][layerIndex[layer]] =
                                      [layer |-> layer,
                                       tileImageriesToFree |-> run.tileImageriesToFree]],
              tileState |-> [st.tileState EXCEPT ![tile] = "LOADING"],
              skeletonCalls |-> st.skeletonCalls + 1]
        ELSE st

\* forEachLoadedTile, line 996: the tiles from the given one on, in turn
RECURSIVE ReloadFrom(_, _, _, _)
ReloadFrom(st, tile, layer, created) ==
    IF tile > NumTiles THEN st
    ELSE ReloadFrom(ReloadTile(st, tile, layer, created[tile]), tile + 1, layer, created)

\* imageryProvider._reload, lines 992-1039, of a shown layer; the tiles of the
\* surface are loaded.  created[tile] is the number of TileImagery that
\* _createTileImagerySkeletons creates for the tile, if it is called.
reload(layer, created) ==
    LET st == ReloadFrom([imagery |-> imagery, loadedCallbacks |-> loadedCallbacks,
                          tileState |-> tileState, skeletonCalls |-> skeletonCalls],
                         1, layer, created)
    IN  /\ layer \in shownLayers
        /\ st.skeletonCalls <= MaxSkeletonCalls
        /\ imagery' = st.imagery
        /\ loadedCallbacks' = st.loadedCallbacks
        /\ tileState' = st.tileState
        /\ skeletonCalls' = st.skeletonCalls
        /\ UNCHANGED <<renderableTile, renderableTileSubset, layers,
                       tilesToRenderByTextureCount, usedDrawCommands, drawCommands,
                       uniformMaps, commandList, missingTileStrategy, hasWaterMask,
                       oceanNormalMap, waterMaskTexture, vertexArray, fillMesh, threw>>
        /\ UNCHANGED <<visVars, hostVars, fillVars, pickCommandList,
                       lastSelectionResultFrame, lastSelectionResult, edgeTiles,
                       freedImagery>>

\* The callback of getTileReadyCallback, lines 951-962: the index of the first
\* entry of the layer, looked for from index i on, or -1
RECURSIVE FirstOfLayer(_, _, _)
FirstOfLayer(tileImageryCollection, layer, i) ==
    IF i >= Len(tileImageryCollection) THEN -1
    ELSE IF tileImageryCollection[i + 1].layer = layer THEN i
    ELSE FirstOfLayer(tileImageryCollection, layer, i + 1)

\* The function getTileReadyCallback returns, lines 948-982, called with a
\* tile: the tile's list and freed TileImagery after the call, what the call
\* returns, and whether it has created TileImagery
TileReadyCallback(callback, tileImageryCollection, freed, created, call) ==
    LET layer == callback.layer
        tileImageriesToFree == callback.tileImageriesToFree
        startIndex == FirstOfLayer(tileImageryCollection, layer, 0)
        endIndex == startIndex + tileImageriesToFree
    IN  IF startIndex # -1
        THEN IF \/ endIndex >= Len(tileImageryCollection)
                \/ tileImageryCollection[endIndex + 1].layer # layer
             THEN [imagery |-> createTileImagerySkeletons(tileImageryCollection, layer,
                                                          endIndex, created, call),
                   freed |-> freed,
                   returns |-> ~(created > 0),
                   created |-> created > 0]
             ELSE [imagery |-> SubSeq(tileImageryCollection, 1, startIndex)
                                   \o SubSeq(tileImageryCollection, endIndex + 1,
                                             Len(tileImageryCollection)),
                   freed |-> freed \o SubSeq(tileImageryCollection, startIndex + 1, endIndex),
                   returns |-> TRUE,
                   created |-> FALSE]
        ELSE [imagery |-> tileImageryCollection, freed |-> freed, returns |-> TRUE,
              created |-> FALSE]

\* The quadtree calls tile._loadedCallbacks[layerId] with the tile and removes
\* the callback if it returns true (lines 969-970 and 981).  created is the
\* number of TileImagery that _createTileImagerySkeletons creates, if called.
tileReady(tile, layerId, created) ==
    LET done == TileReadyCallback(loadedCallbacks[tile][layerId], imagery[tile],
                                  freedImagery[tile], created, skeletonCalls + 1)
    IN  /\ loadedCallbacks[tile][layerId] # NoCallback
        /\ done.created => skeletonCalls < MaxSkeletonCalls
        /\ imagery' = [imagery EXCEPT ![tile] = done.imagery]
        /\ freedImagery' = [freedImagery EXCEPT ![tile] = done.freed]
        /\ loadedCallbacks' = IF done.returns
                              THEN [loadedCallbacks EXCEPT ![tile][layerId] = NoCallback]
                              ELSE loadedCallbacks
        /\ skeletonCalls' = IF done.created THEN skeletonCalls + 1 ELSE skeletonCalls
        /\ UNCHANGED <<renderableTile, renderableTileSubset, layers,
                       tilesToRenderByTextureCount, usedDrawCommands, drawCommands,
                       uniformMaps, commandList, missingTileStrategy, hasWaterMask,
                       oceanNormalMap, waterMaskTexture, vertexArray, fillMesh, threw>>
        /\ UNCHANGED <<visVars, hostVars, fillVars, pickCommandList,
                       lastSelectionResultFrame, lastSelectionResult, edgeTiles,
                       tileState>>

\* ------------------------------------------------------------------ specifications

\* The state after construction, lines 173-226.
Init ==
    /\ renderableTile = [t \in Tiles |-> 0]
    /\ renderableTileSubset = [t \in Tiles |-> NoSubset]
    /\ imagery = [t \in Tiles |-> <<>>]
    /\ layers = [l \in Layers |-> DefaultLayer]
    /\ tilesToRenderByTextureCount = [k \in 0..MaxTextureCount |-> UndefinedTileSet]
    /\ usedDrawCommands = 0
    /\ drawCommands = <<>>
    /\ uniformMaps = <<>>
    /\ commandList = <<>>
    /\ missingTileStrategy = CREATE_FILL_TILE
    /\ hasWaterMask = FALSE
    /\ oceanNormalMap = FALSE
    /\ waterMaskTexture = [t \in Tiles |-> FALSE]
    /\ vertexArray = [t \in Tiles |-> FALSE]
    /\ fillMesh = [t \in Tiles |-> FALSE]
    /\ threw = "none"
    /\ VisInitial
    /\ HostInitial
    /\ FillInitial
    /\ OtherInitial

\* Every hook on every tile, in any order.
Next ==
    \/ \E tile \in Tiles : loadTile(tile)
    \/ beginUpdate
    \/ \E tile \in Tiles : \E nearestRenderableTile \in {0, tile} \cup Ancestors(tile) :
           showTileThisFrame(tile, nearestRenderableTile)
    \/ endUpdate

Spec == Init /\ [][Next]_vars

\* --- SpecShow: frames of showTileThisFrame calls, in any order, on loaded tiles

\* A loaded surface: each tile holds no imagery or one ready TileImagery.
InitShow ==
    /\ renderableTile = [t \in Tiles |-> 0]
    /\ renderableTileSubset = [t \in Tiles |-> NoSubset]
    /\ imagery \in [Tiles -> {<<>>, <<[layer |-> 1, ready |-> TRUE]>>}]
    /\ layers = [l \in Layers |-> DefaultLayer]
    /\ tilesToRenderByTextureCount = [k \in 0..MaxTextureCount |-> UndefinedTileSet]
    /\ usedDrawCommands = 0
    /\ drawCommands = <<>>
    /\ uniformMaps = <<>>
    /\ commandList = <<>>
    /\ missingTileStrategy = CREATE_FILL_TILE
    /\ hasWaterMask = FALSE
    /\ oceanNormalMap = FALSE
    /\ waterMaskTexture = [t \in Tiles |-> FALSE]
    /\ vertexArray = [t \in Tiles |-> TRUE]
    /\ fillMesh = [t \in Tiles |-> FALSE]
    /\ threw = "none"
    /\ VisInitial
    /\ HostInitial
    /\ FillInitial
    /\ OtherInitial

NextShow ==
    \/ beginUpdate
    \/ \E tile \in Tiles : \E nearestRenderableTile \in {0, tile} \cup Ancestors(tile) :
           showTileThisFrame(tile, nearestRenderableTile)

SpecShow == InitShow /\ [][NextShow]_vars

\* --- SpecDraw: the first frame a configured provider draws of its level-zero tile

\* A layer with alpha 0.
TransparentLayer == [DefaultLayer EXCEPT !.alpha = 0]

\* The provider after construction and after Globe has assigned its settings;
\* the tiles at even or at odd depth carry a water mask texture.
InitDraw ==
    /\ renderableTile = [t \in Tiles |-> 0]
    /\ renderableTileSubset = [t \in Tiles |-> NoSubset]
    /\ imagery = [t \in Tiles |-> <<>>]
    /\ layers \in [Layers -> {DefaultLayer, TransparentLayer}]
    /\ tilesToRenderByTextureCount = [k \in 0..MaxTextureCount |-> UndefinedTileSet]
    /\ usedDrawCommands = 0
    /\ drawCommands = <<>>
    /\ uniformMaps = <<>>
    /\ commandList = <<>>
    /\ missingTileStrategy = CREATE_FILL_TILE
    /\ hasWaterMask \in BOOLEAN
    /\ oceanNormalMap \in BOOLEAN
    /\ \E parity \in {0, 1} : waterMaskTexture = [t \in Tiles |-> t % 2 = parity]
    /\ vertexArray = [t \in Tiles |-> FALSE]
    /\ fillMesh = [t \in Tiles |-> FALSE]
    /\ threw = "none"
    /\ VisInitial
    /\ HostInitial
    /\ FillInitial
    /\ OtherInitial

\* No tile is queued and no frame has been drawn.
BeforeFirstFrame ==
    /\ QueuedFrom(0) = 0
    /\ commandList = <<>>
    /\ threw = "none"

\* The level-zero tile loads; once it has its geometry it is shown and drawn.
NextDraw ==
    \/ BeforeFirstFrame /\ loadTile(1)
    \/ \E nearestRenderableTile \in {0, 1} :
           vertexArray[1] /\ showTileThisFrame(1, nearestRenderableTile)
    \/ endUpdate

SpecDraw == InitDraw /\ [][NextDraw]_vars

\* --- SpecShade: as SpecDraw, with layers whose color adjustments differ

\* Cap on the number of layers whose settings differ from the defaults.
MaxAdjusted == 1

\* The layer collections with at most MaxAdjusted adjusted layers.
LayerCollections ==
    {c \in [Layers -> LayerPalette] :
        Cardinality({l \in Layers : c[l] # DefaultLayer}) <= MaxAdjusted}

\* The provider with a reflective ocean (no wave normal map) and tiles that
\* all carry a water mask texture.
InitShade ==
    /\ renderableTile = [t \in Tiles |-> 0]
    /\ renderableTileSubset = [t \in Tiles |-> NoSubset]
    /\ imagery = [t \in Tiles |-> <<>>]
    /\ layers \in LayerCollections
    /\ tilesToRenderByTextureCount = [k \in 0..MaxTextureCount |-> UndefinedTileSet]
    /\ usedDrawCommands = 0
    /\ drawCommands = <<>>
    /\ uniformMaps = <<>>
    /\ commandList = <<>>
    /\ missingTileStrategy = CREATE_FILL_TILE
    /\ hasWaterMask = TRUE
    /\ oceanNormalMap = FALSE
    /\ waterMaskTexture = [t \in Tiles |-> TRUE]
    /\ vertexArray = [t \in Tiles |-> FALSE]
    /\ fillMesh = [t \in Tiles |-> FALSE]
    /\ threw = "none"
    /\ VisInitial
    /\ HostInitial
    /\ FillInitial
    /\ OtherInitial

NextShade ==
    \/ BeforeFirstFrame /\ loadTile(1)
    \/ \E nearestRenderableTile \in {0, 1} :
           vertexArray[1] /\ showTileThisFrame(1, nearestRenderableTile)
    \/ endUpdate

SpecShade == InitShade /\ [][NextShade]_vars

\* --- SpecDistance: the terrain of a branch loads while the distance to its
\* deepest tile is computed

InitDistance == Init

\* What getBvh may compute for the tile: nothing, NaN heights, or heights.
DistanceBvhs == {NoRange, Range(NaN, NaN), Range(0, MaxHeight)}

NextDistance ==
    \/ \E tile \in Tiles : processStateMachine(tile, Range(0, MaxHeight))
    \/ computeDistanceToTile(NumTiles, DistanceBvhs)

SpecDistance == InitDistance /\ [][NextDistance]_vars

\* --- SpecVis: the visibility of a level-zero tile is computed while its
\* terrain loads and the clipping planes are set

InitVis ==
    /\ renderableTile = [t \in Tiles |-> 0]
    /\ renderableTileSubset = [t \in Tiles |-> NoSubset]
    /\ imagery = [t \in Tiles |-> <<>>]
    /\ layers = [l \in Layers |-> DefaultLayer]
    /\ tilesToRenderByTextureCount = [k \in 0..MaxTextureCount |-> UndefinedTileSet]
    /\ usedDrawCommands = 0
    /\ drawCommands = <<>>
    /\ uniformMaps = <<>>
    /\ commandList = <<>>
    /\ missingTileStrategy = CREATE_FILL_TILE
    /\ hasWaterMask = FALSE
    /\ oceanNormalMap = FALSE
    /\ waterMaskTexture = [t \in Tiles |-> FALSE]
    /\ vertexArray = [t \in Tiles |-> FALSE]
    /\ fillMesh = [t \in Tiles |-> FALSE]
    /\ threw = "none"
    /\ terrain = [t \in Tiles |-> NoTerrain]
    /\ tileBoundingRegion = [t \in Tiles |-> NoRange]
    /\ boundingVolumeSourceTile = [t \in Tiles |-> 0]
    /\ orientedBoundingBox = [t \in Tiles |-> NoRange]
    /\ occludeePointInScaledSpace = [t \in Tiles |-> FALSE]
    /\ \E clipped \in BOOLEAN : isClipped = [t \in Tiles |-> clipped]
    /\ distance = [t \in Tiles |-> <<0, 0>>]
    /\ clippingPlanes = "undefined"
    /\ everResolved = [t \in Tiles |-> FALSE]
    /\ lastCall = NoCall
    /\ HostInitial
    /\ FillInitial
    /\ OtherInitial

NextVis ==
    \/ processStateMachine(1, Range(0, 0))
    \/ \E value \in {"undefined", "disabled", "enabled"} : setClippingPlanes(value)
    \/ computeTileVisibility(1, {NoRange})

SpecVis == InitVis /\ [][NextVis]_vars

\* --- SpecFill: a fill mesh is built for the level-zero tile from the edges
\* of the tiles rendered around it

\* The members of a set of numbers in ascending order.
RECURSIVE Ascend(_)
Ascend(numbers) ==
    IF numbers = {} THEN <<>>
    ELSE <<Least(numbers)>> \o Ascend(numbers \ {Least(numbers)})

\* The height of the vertices a neighbour holds along an edge of the tile.
EdgeHeight(edge) == IF edge \in {"west", "east"} THEN 0 ELSE MaxHeight

\* What the meshes of the tiles rendered beyond an edge yield for it: no
\* vertex, or two or three vertices in the order the boundary is walked.
EdgeInputs(edge) ==
    {EdgeDetails([k \in 1..Cardinality(positions) |->
                     EdgeVertex(edge, Ascend(positions)[k], EdgeHeight(edge) * 10)],
                 EdgeHeight(edge), EdgeHeight(edge)) :
        positions \in {ps \in SUBSET (0..MaxUV) : Cardinality(ps) \in {2, 3}}}
    \cup {NoEdgeVertices}

\* The bounding regions of a tile that defers to a rendered ancestor: its
\* heights are those of the ancestor's mesh at the latest, lines 883-887.
Regions == {Range(a, b) : a \in 0..MaxHeight, b \in 0..MaxHeight}

\* A loaded surface whose level-zero tile has heights in its bounding region
\* (read where no edge yields a vertex) and rendered tiles around it that yield
\* one of inputs[edge] along each edge.
FillSurface(inputs) ==
    /\ renderableTile = [t \in Tiles |-> 0]
    /\ renderableTileSubset = [t \in Tiles |-> NoSubset]
    /\ imagery = [t \in Tiles |-> <<>>]
    /\ layers = [l \in Layers |-> DefaultLayer]
    /\ tilesToRenderByTextureCount = [k \in 0..MaxTextureCount |-> UndefinedTileSet]
    /\ usedDrawCommands = 0
    /\ drawCommands = <<>>
    /\ uniformMaps = <<>>
    /\ commandList = <<>>
    /\ missingTileStrategy = CREATE_FILL_TILE
    /\ hasWaterMask = FALSE
    /\ oceanNormalMap = FALSE
    /\ waterMaskTexture = [t \in Tiles |-> FALSE]
    /\ vertexArray = [t \in Tiles |-> FALSE]
    /\ fillMesh = [t \in Tiles |-> FALSE]
    /\ threw = "none"
    /\ terrain = [t \in Tiles |-> NoTerrain]
    /\ \E west \in inputs["west"], south \in inputs["south"],
          east \in inputs["east"], north \in inputs["north"] :
           /\ edgeTileVertices =
                  [west |-> west, south |-> south, east |-> east, north |-> north]
           /\ \E region \in IF {west, south, east, north} = {NoEdgeVertices}
                             THEN {r \in Regions : r.minimumHeight <= r.maximumHeight}
                             ELSE {Range(0, 0)} :
                  tileBoundingRegion = [t \in Tiles |-> IF t = 1 THEN region ELSE NoRange]
    /\ boundingVolumeSourceTile = [t \in Tiles |-> 0]
    /\ orientedBoundingBox = [t \in Tiles |-> NoRange]
    /\ occludeePointInScaledSpace = [t \in Tiles |-> FALSE]
    /\ isClipped = [t \in Tiles |-> TRUE]
    /\ distance = [t \in Tiles |-> <<0, 0>>]
    /\ clippingPlanes = "undefined"
    /\ everResolved = [t \in Tiles |-> FALSE]
    /\ lastCall = NoCall
    /\ HostInitial
    /\ edgeDetails = NoEdgeHasVertices
    /\ lastFillMesh = NoFillMesh
    /\ tileVerticesScratch = <<>>
    /\ fillBuilds = 0
    /\ OtherInitial

InitFill == FillSurface([edge \in {"west", "south", "east", "north"} |-> EdgeInputs(edge)])

NextFill == createFillMesh(1)

SpecFill == InitFill /\ [][NextFill]_vars

\* --- SpecCorner: a fill mesh is built from edges on which the neighbours
\* yield at most one vertex each

\* What the meshes of the tiles rendered beyond an edge yield for it when at
\* most one of their vertices lies along the edge of the tile.
ShortEdgeInputs(edge) ==
    {EdgeDetails(<<EdgeVertex(edge, p, EdgeHeight(edge) * 10)>>,
                 EdgeHeight(edge), EdgeHeight(edge)) : p \in 0..MaxUV}
    \cup {NoEdgeVertices}

InitCorner == FillSurface([edge \in {"west", "south", "east", "north"} |-> ShortEdgeInputs(edge)])

NextCorner == createFillMesh(1)

SpecCorner == InitCorner /\ [][NextCorner]_vars

\* --- SpecFrame: frames of a loaded surface, the hooks in the order the
\* quadtree calls them

\* The imagery lists of the tiles: of both layers, ready at the level-zero
\* tile, the first still loading at the next; none at the tiles below.
LoadedImagery(tile) ==
    CASE tile = 1 -> <<[layer |-> 1, ready |-> TRUE], [layer |-> 2, ready |-> TRUE]>>
      [] tile = 2 -> <<[layer |-> 1, ready |-> FALSE], [layer |-> 2, ready |-> TRUE]>>
      [] OTHER -> <<>>

\* A surface whose tiles have their geometry down to the level above the
\* deepest.  The second layer is opaque or fully transparent.
InitFrame ==
    /\ renderableTile = [t \in Tiles |-> 0]
    /\ renderableTileSubset = [t \in Tiles |-> NoSubset]
    /\ imagery = [t \in Tiles |-> LoadedImagery(t)]
    /\ \E second \in {DefaultLayer, TransparentLayer} :
           layers = [l \in Layers |-> IF l = 2 THEN second ELSE DefaultLayer]
    /\ tilesToRenderByTextureCount = [k \in 0..MaxTextureCount |-> UndefinedTileSet]
    /\ usedDrawCommands = 0
    /\ drawCommands = <<>>
    /\ uniformMaps = <<>>
    /\ commandList = <<>>
    /\ missingTileStrategy \in MissingTileStrategy
    /\ hasWaterMask = FALSE
    /\ oceanNormalMap = FALSE
    /\ waterMaskTexture = [t \in Tiles |-> FALSE]
    /\ vertexArray = [t \in Tiles |-> t < NumTiles]
    /\ fillMesh = [t \in Tiles |-> FALSE]
    /\ threw = "none"
    /\ VisInitial
    /\ HostInitial
    /\ FillInitial
    /\ OtherInitial

\* The tiles queued since the last beginUpdate.
QueuedTiles ==
    UNION {{tilesToRenderByTextureCount[k].tiles[i] :
               i \in 1..Len(tilesToRenderByTextureCount[k].tiles)} :
           k \in 0..MaxTextureCount}

\* The tile the quadtree names as nearest renderable when it shows a tile: the
\* tile itself (or none) when it has its geometry, else an ancestor that has.
NearestRenderableTiles(tile) ==
    IF vertexArray[tile] THEN {0, tile}
    ELSE {ancestor \in Ancestors(tile) : vertexArray[ancestor]}

\* A frame: initialize, beginUpdate, showTileThisFrame for each tile selected,
\* each tile once, and endUpdate.
NextFrame ==
    \/ framePhase = "idle" /\ initialize
    \/ framePhase = "initialized" /\ beginUpdate
    \/ \E tile \in Tiles \ QueuedTiles :
       \E nearestRenderableTile \in NearestRenderableTiles(tile) :
           framePhase = "updating" /\ showTileThisFrame(tile, nearestRenderableTile)
    \/ framePhase = "updating" /\ endUpdate

SpecFrame == InitFrame /\ [][NextFrame]_vars

\* --- SpecPick: frames of a loaded surface with pick passes at any point

InitPick == InitFrame

NextPick ==
    \/ framePhase = "idle" /\ initialize
    \/ framePhase = "initialized" /\ beginUpdate
    \/ \E tile \in Tiles \ QueuedTiles :
       \E nearestRenderableTile \in NearestRenderableTiles(tile) :
           framePhase = "updating" /\ showTileThisFrame(tile, nearestRenderableTile)
    \/ framePhase = "updating" /\ endUpdate
    \/ updateForPick

SpecPick == InitPick /\ [][NextPick]_vars

\* --- SpecLayers: the layers of the collection are moved, hidden and shown
\* between the frames of a loaded surface

\* A loaded surface: every tile has its geometry, the level-zero tile has
\* ready imagery of both layers, the next of the first, the others have none.
InitLayers ==
    /\ renderableTile = [t \in Tiles |-> 0]
    /\ renderableTileSubset = [t \in Tiles |-> NoSubset]
    /\ imagery = [t \in Tiles |->
                     CASE t = 1 -> <<[layer |-> 1, ready |-> TRUE],
                                     [layer |-> 2, ready |-> TRUE]>>
                       [] t = 2 -> <<[layer |-> 1, ready |-> TRUE]>>
                       [] OTHER -> <<>>]
    /\ layers = [l \in Layers |-> DefaultLayer]
    /\ tilesToRenderByTextureCount = [k \in 0..MaxTextureCount |-> UndefinedTileSet]
    /\ usedDrawCommands = 0
    /\ drawCommands = <<>>
    /\ uniformMaps = <<>>
    /\ commandList = <<>>
    /\ missingTileStrategy = CREATE_FILL_TILE
    /\ hasWaterMask = FALSE
    /\ oceanNormalMap = FALSE
    /\ waterMaskTexture = [t \in Tiles |-> FALSE]
    /\ vertexArray = [t \in Tiles |-> TRUE]
    /\ fillMesh = [t \in Tiles |-> FALSE]
    /\ threw = "none"
    /\ VisInitial
    /\ HostInitial
    /\ FillInitial
    /\ OtherInitial

\* Between two frames the collection raises its events; a frame is initialize,
\* beginUpdate, showTileThisFrame for each tile selected and endUpdate.
NextLayers ==
    \/ \E layer \in Layers, newIndex \in 1..NumLayers :
           framePhase = "idle" /\ onLayerMoved(layer, newIndex)
    \/ \E layer \in Layers, show \in BOOLEAN, skeletons \in SUBSET Tiles :
           framePhase = "idle" /\ onLayerShownOrHidden(layer, show, skeletons)
    \/ framePhase = "idle" /\ initialize
    \/ framePhase = "initialized" /\ beginUpdate
    \/ \E tile \in Tiles \ QueuedTiles :
       \E nearestRenderableTile \in NearestRenderableTiles(tile) :
           framePhase = "updating" /\ showTileThisFrame(tile, nearestRenderableTile)
    \/ framePhase = "updating" /\ endUpdate

SpecLayers == InitLayers /\ [][NextLayers]_vars

\* --- SpecFree: frames of a surface whose destroy queue holds the superseded
\* vertex arrays of some tiles, all with the same index buffer

\* The queues of superseded vertex arrays: of distinct tiles, in any order.
DestroyQueues ==
    {[j \in 1..Len(queued) |-> [tile |-> queued[j], vertexArray |-> "vertexArray"]] :
        queued \in {q \in UNION {[1..n -> Tiles] : n \in 0..NumTiles} :
                        \A j, k \in 1..Len(q) : j # k => q[j] # q[k]}}

\* The index buffers the queued vertex arrays may share: one without a
\* reference count, or one that counts the queued arrays and the vertex arrays
\* still in use.
SharedIndexBuffers(queue) ==
    {IndexBuffer(FALSE, 0, 0)}
    \cup {IndexBuffer(TRUE, referenceCount, 0) :
              referenceCount \in {r \in 1..MaxReferences : r >= Len(queue)}}

InitFree ==
    /\ renderableTile = [t \in Tiles |-> 0]
    /\ renderableTileSubset = [t \in Tiles |-> NoSubset]
    /\ imagery = [t \in Tiles |-> <<>>]
    /\ layers = [l \in Layers |-> DefaultLayer]
    /\ tilesToRenderByTextureCount = [k \in 0..MaxTextureCount |-> UndefinedTileSet]
    /\ usedDrawCommands = 0
    /\ drawCommands = <<>>
    /\ uniformMaps = <<>>
    /\ commandList = <<>>
    /\ missingTileStrategy = CREATE_FILL_TILE
    /\ hasWaterMask = FALSE
    /\ oceanNormalMap = FALSE
    /\ waterMaskTexture = [t \in Tiles |-> FALSE]
    /\ vertexArray = [t \in Tiles |-> TRUE]
    /\ fillMesh = [t \in Tiles |-> FALSE]
    /\ threw = "none"
    /\ VisInitial
    /\ frameNumber = 0
    /\ framePhase = "idle"
    /\ layerIndex = [layer \in Layers |-> layer]
    /\ shownLayers = Layers
    /\ layerOrderChanged = FALSE
    /\ vertexArraysToDestroy \in DestroyQueues
    /\ destroyedVertexArrays = {}
    /\ indexBuffer \in SharedIndexBuffers(vertexArraysToDestroy)
    /\ FillInitial
    /\ OtherInitial

NextFree ==
    \/ framePhase = "idle" /\ initialize
    \/ framePhase = "initialized" /\ beginUpdate
    \/ framePhase = "updating" /\ endUpdate

SpecFree == InitFree /\ [][NextFree]_vars

\* --- SpecReload: the imagery providers of the shown layers reload, the
\* collection moves its layers and the quadtree calls the loaded-callbacks of
\* the tiles between the frames of a loaded surface

\* A loaded surface: the level-zero tile has two ready TileImagery of the first
\* layer and one of the second, the next tile one of each, the third one of the
\* second layer, the others none.
InitReload ==
    /\ renderableTile = [t \in Tiles |-> 0]
    /\ renderableTileSubset = [t \in Tiles |-> NoSubset]
    /\ imagery = [t \in Tiles |->
                     CASE t = 1 -> <<TileImageryOf(1, TRUE, 0), TileImageryOf(1, TRUE, 0),
                                     TileImageryOf(2, TRUE, 0)>>
                       [] t = 2 -> <<TileImageryOf(1, TRUE, 0), TileImageryOf(2, TRUE, 0)>>
                       [] t = 3 -> <<TileImageryOf(2, TRUE, 0)>>
                       [] OTHER -> <<>>]
    /\ layers = [l \in Layers |-> DefaultLayer]
    /\ tilesToRenderByTextureCount = [k \in 0..MaxTextureCount |-> UndefinedTileSet]
    /\ usedDrawCommands = 0
    /\ drawCommands = <<>>
    /\ uniformMaps = <<>>
    /\ commandList = <<>>
    /\ missingTileStrategy = CREATE_FILL_TILE
    /\ hasWaterMask = FALSE
    /\ oceanNormalMap = FALSE
    /\ waterMaskTexture = [t \in Tiles |-> FALSE]
    /\ vertexArray = [t \in Tiles |-> TRUE]
    /\ fillMesh = [t \in Tiles |-> FALSE]
    /\ threw = "none"
    /\ VisInitial
    /\ HostInitial
    /\ FillInitial
    /\ OtherInitial

\* Between two frames the providers reload, the collection moves layers and
\* the quadtree calls the loaded-callbacks; a frame without selected tiles is
\* initialize, beginUpdate and endUpdate.
NextReload ==
    \/ \E layer \in Layers, created \in [Tiles -> 0..MaxSkeletons] :
           framePhase = "idle" /\ reload(layer, created)
    \/ \E layer \in Layers, newIndex \in 1..NumLayers :
           framePhase = "idle" /\ onLayerMoved(layer, newIndex)
    \/ \E tile \in Tiles, layerId \in 1..NumLayers, created \in 0..MaxSkeletons :
           framePhase = "idle" /\ tileReady(tile, layerId, created)
    \/ framePhase = "idle" /\ initialize
    \/ framePhase = "initialized" /\ beginUpdate
    \/ framePhase = "updating" /\ endUpdate

SpecReload == InitReload /\ [][NextReload]_vars

\* --- SpecFind: the rendered tiles along an edge are looked for from an
\* adjacent tile in a quadtree after a selection

\* The adjacent tile, two levels below a level-zero tile, and the child of it
\* whose own children the selection may have reached.
AdjacentTile == southwestChild(southwestChild(1))

DeepChild == northeastChild(AdjacentTile)

\* The four children of a tile.
Children(tile) ==
    {southwestChild(tile), southeastChild(tile), northwestChild(tile),
     northeastChild(tile)}

\* The tiles whose selection the model follows: the adjacent tile, its
\* ancestors, its children and the children of one of them.
QuadTiles ==
    {1, QuadtreeParent(AdjacentTile), AdjacentTile}
    \cup Children(AdjacentTile) \cup Children(DeepChild)

\* What the quadtree left on a tile: selected in the current frame with a
\* result, or not since the frame before, in which it was rendered.
Selected(result) == [frame |-> LastSelectionFrameNumber, result |-> result]

NotSelected == [frame |-> LastSelectionFrameNumber - 1, result |-> "RENDERED"]

AnySelection ==
    {NotSelected} \cup {Selected(result) : result \in {"RENDERED", "CULLED", "REFINED", "KICKED"}}

\* The selections of the tiles: with the adjacent tile not selected or kicked,
\* its ancestors are in any state and its children are all rendered or all not
\* selected; with the adjacent tile selected and not kicked, its ancestors are
\* refined, the children of a refined adjacent tile are in any state and the
\* children of a refined DeepChild are rendered, culled or not selected.
Selections ==
    {[tile \in QuadTiles |->
         CASE tile = 1 -> a
           [] tile = QuadtreeParent(AdjacentTile) -> p
           [] tile = AdjacentTile -> start
           [] OTHER -> child]
       : a \in AnySelection, p \in AnySelection,
         start \in {NotSelected, Selected("KICKED")},
         child \in {NotSelected, Selected("RENDERED")}}
    \cup
    {[tile \in QuadTiles |->
         CASE tile \in {1, QuadtreeParent(AdjacentTile)} -> Selected("REFINED")
           [] tile = AdjacentTile -> start
           [] tile \in Children(AdjacentTile) -> child
           [] OTHER -> NotSelected]
       : start \in {Selected("RENDERED"), Selected("CULLED")},
         child \in {NotSelected, Selected("RENDERED")}}
    \cup
    {[tile \in QuadTiles |->
         CASE tile \in {1, QuadtreeParent(AdjacentTile)} -> Selected("REFINED")
           [] tile = AdjacentTile -> Selected("REFINED")
           [] tile = southwestChild(AdjacentTile) -> sw
           [] tile = southeastChild(AdjacentTile) -> se
           [] tile = northwestChild(AdjacentTile) -> nw
           [] tile = northeastChild(AdjacentTile) -> ne
           [] OTHER -> IF ne = Selected("REFINED")
                       THEN deep[tile - southwestChild(DeepChild) + 1]
                       ELSE NotSelected]
       : sw \in AnySelection, se \in AnySelection, nw \in AnySelection,
         ne \in AnySelection,
         deep \in [1..4 -> {NotSelected, Selected("RENDERED"), Selected("CULLED")}]}

InitFind ==
    /\ renderableTile = [t \in Tiles |-> 0]
    /\ renderableTileSubset = [t \in Tiles |-> NoSubset]
    /\ imagery = [t \in Tiles |-> <<>>]
    /\ layers = [l \in Layers |-> DefaultLayer]
    /\ tilesToRenderByTextureCount = [k \in 0..MaxTextureCount |-> UndefinedTileSet]
    /\ usedDrawCommands = 0
    /\ drawCommands = <<>>
    /\ uniformMaps = <<>>
    /\ commandList = <<>>
    /\ missingTileStrategy = CREATE_FILL_TILE
    /\ hasWaterMask = FALSE
    /\ oceanNormalMap = FALSE
    /\ waterMaskTexture = [t \in Tiles |-> FALSE]
    /\ vertexArray = [t \in Tiles |-> FALSE]
    /\ fillMesh = [t \in Tiles |-> FALSE]
    /\ threw = "none"
    /\ VisInitial
    /\ HostInitial
    /\ FillInitial
    /\ pickCommandList = <<>>
    /\ \E selection \in Selections :
           /\ lastSelectionResultFrame = [tile \in QuadTiles |-> selection[tile].frame]
           /\ lastSelectionResult = [tile \in QuadTiles |-> selection[tile].result]
    /\ edgeTiles = NoEdgeTiles
    /\ ReloadInitial

NextFind ==
    \E startingTile \in {0, AdjacentTile}, tileEdge \in {"WEST", "SOUTH", "EAST", "NORTH"} :
        findEdgeTiles(startingTile, tileEdge)

SpecFind == InitFind /\ [][NextFind]_vars

\* ------------------------------------------------------------------ properties

\* The commands pushed by the last endUpdate, in the order they were pushed.
Emitted == [i \in 1..Len(commandList) |-> drawCommands[commandList[i]]]

\* The positions in Emitted of the commands assembled for the call-th queued tile.
CommandsOf(call) == {i \in 1..Len(Emitted) : Emitted[i].call = call}

\* The calls of addDrawCommandsForTile the last endUpdate emitted commands for.
Calls == {Emitted[i].call : i \in 1..Len(Emitted)}

\* Whether the entry at position i of a tile's imagery list has a ready image
\* and a layer alpha other than 0.
Drawable(tile, i) ==
    imagery[tile][i].ready /\ layers[imagery[tile][i].layer].alpha # 0

\* The positions of a tile's drawable entries.
DrawablePositions(tile) == {i \in 1..Len(imagery[tile]) : Drawable(tile, i)}

\* The texture budget per draw of a tile, as the claims state it.
Budget(tile) ==
    IF hasWaterMask /\ waterMaskTexture[tile]
    THEN (IF oceanNormalMap THEN MaximumTextureImageUnits - 2
                            ELSE MaximumTextureImageUnits - 1)
    ELSE MaximumTextureImageUnits

\* The least n with n * b >= r.
CeilDiv(r, b) == (r + b - 1) \div b

\* The texture slots of the commands of one call, concatenated in emission order.
RECURSIVE SlotsFrom(_, _)
SlotsFrom(call, i) ==
    IF i > Len(Emitted) THEN <<>>
    ELSE (IF Emitted[i].call = call THEN Emitted[i].dayTextures ELSE <<>>)
         \o SlotsFrom(call, i + 1)

\* The elements of a set of positions in increasing order.
RECURSIVE Ascending(_)
Ascending(positions) ==
    IF positions = {} THEN <<>>
    ELSE LET least == CHOOSE p \in positions : \A q \in positions : p <= q
         IN  <<least>> \o Ascending(positions \ {least})

\* C1 (as claimed): whenever a tile's renderableTile is set to a tile B, B's own
\* renderableTile is unset, after any sequence of showTileThisFrame calls.
C1_NoChain ==
    \A a \in Tiles :
        renderableTile[a] # 0 => renderableTile[renderableTile[a]] = 0

\* C2 (as claimed): a drawn tile with R drawable entries and budget B yields
\* exactly max(1, ceil(R / B)) commands, wherever the other entries sit.
C2_CommandCount ==
    \A call \in Calls :
        LET owner == Emitted[CHOOSE i \in CommandsOf(call) : TRUE].owner
            r == Cardinality(DrawablePositions(owner))
            needed == CeilDiv(r, Budget(owner))
        IN  Cardinality(CommandsOf(call)) = (IF needed < 1 THEN 1 ELSE needed)

\* C3: over the commands of one drawn tile, the texture slots taken in emission
\* order hold exactly the drawable entries of its imagery list, each once, in
\* list order; an entry that is not ready or fully transparent holds no slot.
C3_EachReadyLayerOnce ==
    \A call \in Calls :
        LET owner == Emitted[CHOOSE i \in CommandsOf(call) : TRUE].owner
        IN  SlotsFrom(call, 1) = Ascending(DrawablePositions(owner))

\* C3 witness: a tile drawn in two commands whose list has a skipped entry
\* ahead of a packed one.
C3_Witness ==
    \E call \in Calls :
        LET owner == Emitted[CHOOSE i \in CommandsOf(call) : TRUE].owner
        IN  /\ Cardinality(CommandsOf(call)) >= 2
            /\ \E i, j \in 1..Len(imagery[owner]) :
                   i < j /\ ~Drawable(owner, i) /\ Drawable(owner, j)

\* C4: no command carries more imagery textures than the budget of its tile:
\* maximumTextureImageUnits, less 1 with the reflective ocean shown, less 1 more
\* with an ocean normal map too.
C4_WithinBudget ==
    \A i \in 1..Len(Emitted) :
        /\ Emitted[i].numberOfDayTextures <= Budget(Emitted[i].owner)
        /\ Len(Emitted[i].dayTextures) = Emitted[i].numberOfDayTextures

\* C4 witness: a command filled to a budget that the ocean reduced by 2.
C4_Witness ==
    \E i \in 1..Len(Emitted) :
        /\ Budget(Emitted[i].owner) = MaximumTextureImageUnits - 2
        /\ Emitted[i].numberOfDayTextures = Budget(Emitted[i].owner)

\* C5: of the commands of one drawn tile, the first has the opaque render state
\* (depth test LESS, no blending) and the base color as initial color; each
\* later one has the alpha-blend state (LESS_OR_EQUAL) and initial color 0,0,0,0.
C5_FirstOpaqueThenBlend ==
    \A call \in Calls :
        LET first == CHOOSE i \in CommandsOf(call) : \A j \in CommandsOf(call) : i <= j
        IN  \A i \in CommandsOf(call) :
                IF i = first
                THEN /\ Emitted[i].renderState.depthFunc = "LESS"
                     /\ Emitted[i].renderState.blending = "none"
                     /\ Emitted[i].initialColor = <<0, 0, 5, 10>>
                ELSE /\ Emitted[i].renderState.depthFunc = "LESS_OR_EQUAL"
                     /\ Emitted[i].renderState.blending = "ALPHA_BLEND"
                     /\ Emitted[i].initialColor = <<0, 0, 0, 0>>

\* C5 witness: a tile drawn in three commands.
C5_Witness ==
    \E call \in Calls : Cardinality(CommandsOf(call)) >= 3

SlotLayer(command, k) == layers[imagery[command.owner][command.dayTextures[k]].layer]

\* C7: a command applies alpha exactly when a layer packed in that command has
\* an alpha other than 1.0, and likewise brightness, contrast, hue, saturation,
\* gamma and split; a tile whose only entry is ready at alpha 1.0 yields one
\* command, in the first-pass state, with one texture and applyAlpha false.
C7_ApplyFlags ==
    /\ \A i \in 1..Len(Emitted) :
        LET command == Emitted[i]
            slotRange == 1..command.numberOfDayTextures
        IN  /\ command.applyAlpha
                <=> \E k \in slotRange : SlotLayer(command, k).alpha # 10
            /\ command.applyBrightness
                <=> \E k \in slotRange : SlotLayer(command, k).brightness # 10
            /\ command.applyContrast
                <=> \E k \in slotRange : SlotLayer(command, k).contrast # 10
            /\ command.applyHue
                <=> \E k \in slotRange : SlotLayer(command, k).hue # 0
            /\ command.applySaturation
                <=> \E k \in slotRange : SlotLayer(command, k).saturation # 10
            /\ command.applyGamma
                <=> \E k \in slotRange : SlotLayer(command, k).gamma # 10
            /\ command.applySplit
                <=> \E k \in slotRange : SlotLayer(command, k).splitDirection # 0
    /\ \A call \in Calls :
        LET owner == Emitted[CHOOSE i \in CommandsOf(call) : TRUE].owner
        IN  (/\ Len(imagery[owner]) = 1
             /\ imagery[owner][1].ready
             /\ layers[imagery[owner][1].layer].alpha = 10)
            => /\ Cardinality(CommandsOf(call)) = 1
               /\ \A i \in CommandsOf(call) :
                      /\ Emitted[i].renderState.depthFunc = "LESS"
                      /\ Emitted[i].renderState.blending = "none"
                      /\ Emitted[i].numberOfDayTextures = 1
                      /\ ~Emitted[i].applyAlpha

\* C7 witness: a command with two textures, the first of a layer at alpha 0.5
\* and the second of a layer at alpha 1.0, that applies alpha.
C7_Witness ==
    \E i \in 1..Len(Emitted) :
        /\ Emitted[i].numberOfDayTextures = 2
        /\ SlotLayer(Emitted[i], 1).alpha = 5
        /\ SlotLayer(Emitted[i], 2).alpha = 10
        /\ Emitted[i].applyAlpha

\* C8: a computeTileVisibility call in which the fog is enabled and its opacity
\* at the tile's distance is 1.0 or more returns NONE, and neither the clipping
\* planes nor the culling volume nor the occluder has been asked.
C8_FogHidesFirst ==
    (/\ lastCall.op = "computeTileVisibility"
     /\ lastCall.fogEnabled
     /\ lastCall.fog >= 10)
    => /\ lastCall.visibility = "NONE"
       /\ lastCall.planeIntersection = "none"
       /\ lastCall.cullingIntersection = "none"
       /\ ~lastCall.occludeeTested

\* C8 witness: the fog has hidden a tile whose bounding volume is known, with
\* clipping planes enabled.
C8_Witness ==
    /\ lastCall.op = "computeTileVisibility"
    /\ lastCall.fogEnabled
    /\ lastCall.fog >= 10
    /\ lastCall.visibility = "NONE"
    /\ boundingVolumeSourceTile[lastCall.tile] # 0
    /\ clippingPlanes = "enabled"

\* What C9 asks of a step that ends a computeTileVisibility call.
C9_Step ==
    LET call == lastCall'
        t == call.tile
        hidden == call.fogEnabled /\ call.fog >= 10
        perspective3D == call.scene3D /\ ~call.ortho3D
        hiddenByOccluder ==
            /\ perspective3D
            /\ call.occluders
            /\ call.occludeeDefined
            /\ ~call.occludeeVisible
    IN  (call.op = "computeTileVisibility" /\ ~hidden) =>
        IF ~everResolved'[t]
        THEN /\ call.visibility = "PARTIAL"
             /\ call.planeIntersection = "none"
             /\ call.cullingIntersection = "none"
             /\ ~call.occludeeTested
             /\ isClipped'[t] = isClipped[t]
        ELSE /\ lastCall' # lastCall =>
                    call.clippingEnabled = (clippingPlanes = "enabled")
             /\ call.clippingEnabled <=> call.planeIntersection # "none"
             /\ IF call.clippingEnabled /\ call.planeIntersection = "OUTSIDE"
                THEN /\ call.visibility = "NONE"
                     /\ call.cullingIntersection = "none"
                ELSE IF call.cullingIntersection = "OUTSIDE"
                THEN /\ call.visibility = "NONE"
                     /\ ~call.occludeeTested
                ELSE IF hiddenByOccluder
                THEN call.visibility = "NONE"
                ELSE \/ /\ call.cullingIntersection = "INTERSECTING"
                        /\ call.visibility = "PARTIAL"
                     \/ /\ call.cullingIntersection = "INSIDE"
                        /\ call.visibility = "FULL"

\* C9: a computeTileVisibility call that the fog does not end returns PARTIAL,
\* asking nothing and leaving isClipped alone, when heights were never found for
\* the tile; else NONE when the enabled clipping planes report OUTSIDE; else
\* NONE when the culling volume reports OUTSIDE; else NONE when, in 3D with a
\* perspective frustum, the occludee point is hidden by the occluder; else the
\* culling volume's result, PARTIAL or FULL.
C9_DecisionOrder == [][C9_Step]_vars

\* C9 witness: a tile inside the culling volume and cut by the enabled clipping
\* planes that the occluder hides.
C9_Witness ==
    /\ lastCall.op = "computeTileVisibility"
    /\ ~lastCall.fogEnabled
    /\ lastCall.planeIntersection = "INTERSECTING"
    /\ lastCall.cullingIntersection = "INSIDE"
    /\ lastCall.occludeeTested
    /\ ~lastCall.occludeeVisible
    /\ lastCall.visibility = "NONE"

\* Whether a tile's data yields no heights: no mesh, no terrain data heights,
\* and no _bvh or one with NaN.
YieldsNoHeights(surfaceTile) ==
    /\ ~surfaceTile.mesh.defined
    /\ ~surfaceTile.terrainData.defined
    /\ \/ ~surfaceTile.bvh.defined
       \/ surfaceTile.bvh.minimumHeight = NaN
       \/ surfaceTile.bvh.maximumHeight = NaN

\* What C10 asks of a step that ends a computeDistanceToTile call.
C10_Step ==
    LET call == lastCall'
        t == call.tile
    IN  (/\ call.op # "none"
         /\ \A a \in Ancestors(t) \cup {t} : YieldsNoHeights(terrain'[a]))
        => /\ call.result = <<99999, 99999>>
           /\ boundingVolumeSourceTile'[t] = boundingVolumeSourceTile[t]
           /\ orientedBoundingBox'[t] = orientedBoundingBox[t]

\* C10: when neither the tile nor an ancestor of it yields heights,
\* computeDistanceToTile returns 9999999999.0 and boundingVolumeSourceTile and
\* orientedBoundingBox of the tile are what they were before the call.
C10_SentinelDistance == [][C10_Step]_vars

\* C10 witness: the sentinel distance was returned for a tile whose own _bvh
\* and whose parent's _bvh hold NaN.
C10_Witness ==
    /\ lastCall.op = "computeDistanceToTile"
    /\ lastCall.result = <<99999, 99999>>
    /\ terrain[lastCall.tile].bvh = Range(NaN, NaN)
    /\ terrain[Parent(lastCall.tile)].bvh = Range(NaN, NaN)
    /\ tileBoundingRegion[lastCall.tile] = Range(NaN, NaN)

\* The vertical distance from a camera height to a range of heights.
VerticalDistance(cameraHeight, heights) ==
    IF cameraHeight > heights.maximumHeight THEN cameraHeight - heights.maximumHeight
    ELSE IF cameraHeight < heights.minimumHeight
    THEN heights.minimumHeight - cameraHeight
    ELSE 0

\* C11: when the heights of the last computeDistanceToTile call came from an
\* ancestor, the distance was measured to the range collapsed to the one of
\* minimum and maximum that is farther from the camera height, and the vertical
\* distance to it is at least the vertical distance to every range [a, b]
\* within the ancestor's range.
C11_FartherHeight ==
    (/\ lastCall.op = "computeDistanceToTile"
     /\ lastCall.heightSource # 0
     /\ lastCall.heightSource # lastCall.tile)
    => LET region == tileBoundingRegion[lastCall.tile]
           min == region.minimumHeight
           max == region.maximumHeight
           cameraHeight == lastCall.cameraHeight
           measured == lastCall.measured
       IN  /\ measured.minimumHeight = measured.maximumHeight
           /\ measured.minimumHeight \in {min, max}
           /\ Abs(cameraHeight - measured.minimumHeight) >= Abs(cameraHeight - min)
           /\ Abs(cameraHeight - measured.minimumHeight) >= Abs(cameraHeight - max)
           /\ \A a \in min..max : \A b \in a..max :
                  VerticalDistance(cameraHeight, measured)
                      >= VerticalDistance(cameraHeight, Range(a, b))

\* C11 witness: an ancestor's range with distinct heights was collapsed to its
\* minimum, the camera being nearer to its maximum.
C11_Witness ==
    /\ lastCall.op = "computeDistanceToTile"
    /\ lastCall.heightSource # 0
    /\ lastCall.heightSource # lastCall.tile
    /\ tileBoundingRegion[lastCall.tile].minimumHeight
           < tileBoundingRegion[lastCall.tile].maximumHeight
    /\ lastCall.measured = Range(tileBoundingRegion[lastCall.tile].minimumHeight,
                                 tileBoundingRegion[lastCall.tile].minimumHeight)

\* a <= b as the numbers of the source compare: false when either is NaN.
LessThanOrEqual(a, b) == a # NaN /\ b # NaN /\ a <= b

\* C12 as stated: after the height resolution of a computeDistanceToTile call
\* the tile's bounding region has minimumHeight <= maximumHeight, and when the
\* resolution succeeded its source is the tile or a strict ancestor of it.
C12_Ordered ==
    lastCall.op = "computeDistanceToTile"
    => LET region == tileBoundingRegion[lastCall.tile]
       IN  /\ LessThanOrEqual(region.minimumHeight, region.maximumHeight)
           /\ lastCall.heightSource # 0
              => lastCall.heightSource \in {lastCall.tile} \cup Ancestors(lastCall.tile)

\* C12 amended: after a height resolution that succeeded the tile's bounding
\* region has minimumHeight <= maximumHeight and the source is the tile or a
\* strict ancestor of it; after one that failed both heights are NaN.
C12_OrderedWhenResolved ==
    lastCall.op = "computeDistanceToTile"
    => LET region == tileBoundingRegion[lastCall.tile]
       IN  IF lastCall.heightSource # 0
           THEN /\ LessThanOrEqual(region.minimumHeight, region.maximumHeight)
                /\ lastCall.heightSource \in
                       {lastCall.tile} \cup Ancestors(lastCall.tile)
           ELSE region = Range(NaN, NaN)

\* C12 witness: the heights of a tile were resolved from its parent's parent,
\* whose range has distinct heights.
C12_Witness ==
    /\ lastCall.op = "computeDistanceToTile"
    /\ lastCall.heightSource # 0
    /\ lastCall.heightSource = Parent(Parent(lastCall.tile))
    /\ tileBoundingRegion[lastCall.tile].minimumHeight
           < tileBoundingRegion[lastCall.tile].maximumHeight

\* The heights by kind of source: the mesh's as they are, else the terrain
\* data's times the exaggeration, else the _bvh's times the exaggeration.
HeightsByKind(surfaceTile, terrainExaggeration, heights) ==
    /\ surfaceTile.mesh.defined => heights = surfaceTile.mesh
    /\ (~surfaceTile.mesh.defined /\ surfaceTile.terrainData.defined)
       => /\ heights.minimumHeight
                = surfaceTile.terrainData.minimumHeight * terrainExaggeration
          /\ heights.maximumHeight
                = surfaceTile.terrainData.maximumHeight * terrainExaggeration
    /\ (~surfaceTile.mesh.defined /\ ~surfaceTile.terrainData.defined)
       => /\ heights.minimumHeight = surfaceTile.bvh.minimumHeight * terrainExaggeration
          /\ heights.maximumHeight = surfaceTile.bvh.maximumHeight * terrainExaggeration

\* C13: whatever the calls out of it return, a height resolution for the
\* deepest tile finds no source exactly when neither the tile nor an ancestor
\* has a mesh, terrain data heights or a _bvh without NaN; otherwise its source
\* is the tile when the tile has one of them, else the nearest ancestor that
\* has, and the heights are the source's by mesh first, terrain data second,
\* _bvh third, the latter two times the exaggeration.
C13_FirstMatch ==
    \A d \in DistanceOutcomes(NumTiles, DistanceBvhs) :
        LET tile == NumTiles
            data(t) == IF t = tile THEN [terrain[t] EXCEPT !.bvh = d.bvh]
                       ELSE terrain[t]
            candidates == {t \in {tile} \cup Ancestors(tile) :
                              ~YieldsNoHeights(data(t))}
        IN  IF candidates = {}
            THEN d.heightSource = 0
            ELSE /\ d.heightSource \in candidates
                 /\ \A t \in candidates \ {d.heightSource} :
                        t \in Ancestors(d.heightSource)
                 /\ HeightsByKind(data(d.heightSource), d.terrainExaggeration,
                                  d.tileBoundingRegion)

\* C13 witness: the heights of the deepest tile were resolved from the terrain
\* data of its parent's parent, at an exaggeration above one, its parent
\* holding a _bvh of NaN.
C13_Witness ==
    /\ lastCall.op = "computeDistanceToTile"
    /\ lastCall.tile = NumTiles
    /\ lastCall.heightSource = Parent(Parent(NumTiles))
    /\ lastCall.terrainExaggeration > 1
    /\ terrain[Parent(NumTiles)].bvh = Range(NaN, NaN)
    /\ ~terrain[lastCall.heightSource].mesh.defined
    /\ terrain[lastCall.heightSource].terrainData.defined
    /\ tileBoundingRegion[NumTiles].maximumHeight
           = terrain[lastCall.heightSource].terrainData.maximumHeight
               * lastCall.terrainExaggeration

\* The ring of a fill mesh: all its vertices but the last, the center.
Ring(mesh) == SubSeq(mesh.vertices, 1, Len(mesh.vertices) - 1)

\* The k-th triangle of a mesh, k counted from 0.
Triangle(mesh, k) == SubSeq(mesh.indices, 3 * k + 1, 3 * k + 3)

C19_FlatQuad ==
    (lastFillMesh.defined /\ edgeDetails = NoEdgeHasVertices)
    => LET region == tileBoundingRegion[1]
           vertices == lastFillMesh.vertices
       IN  /\ Len(vertices) = 5
           /\ [k \in 1..4 |-> <<vertices[k].u, vertices[k].v>>]
                  = <<(<<0, MaxUV>>), (<<0, 0>>), (<<MaxUV, 0>>), (<<MaxUV, MaxUV>>)>>
           /\ Len(lastFillMesh.indices) = 4 * 3
           /\ \A k \in 1..5 :
                  vertices[k].height * 2
                      = (region.minimumHeight + region.maximumHeight) * 10
           /\ lastFillMesh.minimumHeight = region.minimumHeight
           /\ lastFillMesh.maximumHeight = region.maximumHeight

\* C19 witness: a fill mesh built without a vertex from any edge, for a tile
\* whose bounding region spans different heights.
C19_Witness ==
    /\ lastFillMesh.defined
    /\ edgeDetails = NoEdgeHasVertices
    /\ tileBoundingRegion[1].minimumHeight < tileBoundingRegion[1].maximumHeight
    /\ Len(lastFillMesh.vertices) = 5

\* Whether two vertices are closer than EPSILON4 in both texture coordinates.
CloserThanEpsilon(a, b) ==
    Abs(a.u - b.u) < EPSILON4 /\ Abs(a.v - b.v) < EPSILON4

\* C20: in a fill mesh no two vertices that follow each other on the ring,
\* the last and the first included, are closer than EPSILON4 in both texture
\* coordinates.
C20_NoCloseNeighbours ==
    lastFillMesh.defined
    => LET ring == Ring(lastFillMesh)
       IN  \A k \in 1..Len(ring) :
               ~CloserThanEpsilon(ring[k], ring[(k % Len(ring)) + 1])

\* C15: a vertex array is destroyed in initialize only, never in endUpdate.
C15_DestroyedInInitialize ==
    \A destroyed \in destroyedVertexArrays : destroyed.during = "initialize"

\* C18: with RENDER_NOTHING, endUpdate ends without an error and has pushed no
\* command for a shown tile that defers to an ancestor and has no mesh of its
\* own.
C18_RendersNothing ==
    (missingTileStrategy = RENDER_NOTHING /\ framePhase = "idle")
    => /\ threw = "none"
       /\ \A i \in 1..Len(Emitted) :
              ~(/\ renderableTile[Emitted[i].shown] # 0
                /\ ~vertexArray[Emitted[i].shown])

\* The number of TileImagery entries of a tile with a ready image and a layer
\* that is not fully transparent.
ReadyTextures(tile) ==
    Cardinality({i \in 1..Len(imagery[tile]) :
                    imagery[tile][i].ready /\ layers[imagery[tile][i].layer].alpha # 0})

\* The bucket a queued tile is in and its place in the bucket.
BucketOf(tile) ==
    CHOOSE k \in 0..MaxTextureCount :
        \E i \in 1..Len(tilesToRenderByTextureCount[k].tiles) :
            tilesToRenderByTextureCount[k].tiles[i] = tile

PlaceOf(tile) ==
    CHOOSE i \in 1..Len(tilesToRenderByTextureCount[BucketOf(tile)].tiles) :
        tilesToRenderByTextureCount[BucketOf(tile)].tiles[i] = tile

\* Whether endUpdate draws the one queued tile before the other.
DrawnBefore(a, b) ==
    \/ BucketOf(a) < BucketOf(b)
    \/ BucketOf(a) = BucketOf(b) /\ PlaceOf(a) < PlaceOf(b)

\* The steps of a frame: beginUpdate leaves every bucket empty; a
\* showTileThisFrame call appends its tile to the bucket of the tile's ready
\* textures and to no other; endUpdate pushes commands for queued tiles only,
\* bucket after bucket and in each bucket in the order of the calls, and for
\* every queued tile unless it ends with an error.
C17_Step ==
    /\ (framePhase = "initialized" /\ framePhase' = "updating")
       => \A k \in 0..MaxTextureCount : tilesToRenderByTextureCount'[k].tiles = <<>>
    /\ (framePhase = "updating" /\ framePhase' = "updating")
       => \E tile \in Tiles :
              \A k \in 0..MaxTextureCount :
                  tilesToRenderByTextureCount'[k].tiles
                      = IF k = ReadyTextures(tile)
                        THEN Append(tilesToRenderByTextureCount[k].tiles, tile)
                        ELSE tilesToRenderByTextureCount[k].tiles
    /\ (framePhase = "updating" /\ framePhase' = "idle")
       => /\ \A i \in 1..Len(Emitted') : Emitted'[i].shown \in QueuedTiles
          /\ \A i, j \in 1..Len(Emitted') :
                 i < j => \/ Emitted'[i].call = Emitted'[j].call
                          \/ DrawnBefore(Emitted'[i].shown, Emitted'[j].shown)
          /\ threw' = "none"
             => QueuedTiles = {Emitted'[i].shown : i \in 1..Len(Emitted')}

\* C17: beginUpdate empties the buckets, each showTileThisFrame call puts its
\* tile into the one bucket of its count of ready textures with a layer alpha
\* other than 0, and endUpdate draws the buckets in ascending order and each
\* bucket in show order, so that only tiles shown in this frame are drawn.
C17_Buckets == [][C17_Step]_vars

\* C17 witness: the second frame has ended with commands for two tiles that
\* were queued in different buckets, one of them without a ready texture that
\* counts although its imagery list is not empty.
C17_Witness ==
    /\ framePhase = "idle"
    /\ frameNumber = 2
    /\ threw = "none"
    /\ \E i, j \in 1..Len(Emitted) :
           /\ i < j
           /\ Emitted[i].shown \in QueuedTiles
           /\ Emitted[j].shown \in QueuedTiles
           /\ BucketOf(Emitted[i].shown) < BucketOf(Emitted[j].shown)
           /\ BucketOf(Emitted[j].shown) < Len(imagery[Emitted[j].shown])

\* Whether the TileImagery entries of a list are in the order of their layers
\* in the collection.
InLayerOrder(tileImageryCollection) ==
    \A i, j \in 1..Len(tileImageryCollection) :
        i < j => layerIndex[tileImageryCollection[i].layer]
                     <= layerIndex[tileImageryCollection[j].layer]

\* C16: from initialize to endUpdate, whatever was moved or shown before the
\* frame, the order-changed flag is clear and the TileImagery list of every
\* tile is in non-decreasing order of layer index, so that endUpdate assembles
\* its commands from lists in layer order.
C16_SortedInFrame ==
    framePhase \in {"initialized", "updating"}
    => /\ ~layerOrderChanged
       /\ \A tile \in Tiles : InLayerOrder(imagery[tile])

\* C16 witness: a frame is under way after the layers have changed places; a
\* tile that holds imagery of both has it in the new order and is queued.
C16_Witness ==
    /\ framePhase = "updating"
    /\ layerIndex[2] < layerIndex[1]
    /\ \E tile \in QueuedTiles :
           /\ Len(imagery[tile]) = 2
           /\ imagery[tile][1].layer = 2
           /\ imagery[tile][2].layer = 1

\* What C23 asks of a step that ends a computeDistanceToTile call in which
\* heights were resolved.
C23_Step ==
    LET call == lastCall'
        t == call.tile
    IN  (call.op = "computeDistanceToTile" /\ call.heightSource # 0)
        => /\ call.heightSource = boundingVolumeSourceTile[t]
              => /\ orientedBoundingBox'[t] = orientedBoundingBox[t]
                 /\ occludeePointInScaledSpace'[t] = occludeePointInScaledSpace[t]
           /\ call.heightSource # boundingVolumeSourceTile[t]
              => /\ orientedBoundingBox'[t] = tileBoundingRegion'[t]
                 /\ boundingVolumeSourceTile'[t] = call.heightSource

\* C23: computeDistanceToTile leaves the oriented bounding box and the occludee
\* point of the tile as they were when the tile that gave the heights is the
\* stored boundingVolumeSourceTile, whatever the heights of that tile are now,
\* and recomputes the box from the new heights and stores the new source when
\* the tile that gave the heights is another one.
C23_SameSourceKeepsVolume == [][C23_Step]_vars

\* C23 witness: the last call resolved the heights from the stored source tile,
\* the heights of that tile had changed since the box was computed, and the box
\* still holds the old ones.
C23_Witness ==
    /\ lastCall.op = "computeDistanceToTile"
    /\ lastCall.heightSource # 0
    /\ boundingVolumeSourceTile[lastCall.tile] = lastCall.heightSource
    /\ orientedBoundingBox[lastCall.tile] # NoRange
    /\ orientedBoundingBox[lastCall.tile] # tileBoundingRegion[lastCall.tile]

\* C22: the fillVertexArray of a tile, once created with the fill mesh, is never
\* destroyed to be replaced by a rebuilt one while the neighbours stay as they
\* are.
C22_FillMeshCached ==
    \A destroyed \in destroyedVertexArrays :
        destroyed.vertexArray # "fillVertexArray"

\* What C21 asks of a step in which createFillTile builds the mesh of a tile
\* that it has built before from the same neighbours.
C21_Step ==
    (lastFillMesh.defined /\ fillBuilds' = fillBuilds + 1)
    => /\ edgeDetails' = edgeDetails
       /\ lastFillMesh'.vertices = lastFillMesh.vertices
       /\ lastFillMesh'.indices = lastFillMesh.indices

\* C21: collecting the edge vertices and assembling the ring a second time, with
\* the edge tiles and their meshes as they were, gives the four edges and the
\* ring vertex sequence of the first time: nothing of the first run is left in
\* the scratch edges or in the scratch vertex array.
C21_Repeatable == [][C21_Step]_vars

\* C21 witness: the mesh was built twice, with vertices collected on the west
\* and on the south edge and a synthesized corner in the ring.
C21_Witness ==
    /\ fillBuilds = 2
    /\ lastFillMesh.defined
    /\ Len(edgeDetails.west.vertices) = 3
    /\ Len(edgeDetails.south.vertices) = 2
    /\ tileVerticesScratch = lastFillMesh.vertices
    /\ Len(tileVerticesScratch) > 5

\* The texture coordinates of the northwest, southwest, southeast and northeast
\* corner of the tile.
Corners == {<<0, MaxUV>>, <<0, 0>>, <<MaxUV, 0>>, <<MaxUV, MaxUV>>}

\* C26: the ring of a fill mesh holds exactly one vertex at the texture
\* coordinates of each of the four corners, whatever the number of vertices
\* collected on an edge.
C26_OneVertexPerCorner ==
    lastFillMesh.defined
    => LET ring == Ring(lastFillMesh)
       IN  \A corner \in Corners :
               Cardinality({k \in 1..Len(ring) :
                               ring[k].u = corner[1] /\ ring[k].v = corner[2]}) = 1

\* What C28 asks of an initialize step whose queue holds vertex arrays that
\* share a reference-counted index buffer.
C28_Step ==
    (frameNumber' = frameNumber + 1 /\ indexBuffer.counted)
    => LET n == Len(vertexArraysToDestroy)
       IN  /\ vertexArraysToDestroy' = <<>>
           /\ destroyedVertexArrays' \ destroyedVertexArrays =
                  {[tile |-> vertexArraysToDestroy[j].tile,
                    vertexArray |-> vertexArraysToDestroy[j].vertexArray,
                    during |-> "initialize"] : j \in 1..n}
           /\ indexBuffer'.referenceCount = indexBuffer.referenceCount - n
           /\ indexBuffer'.destroys =
                  IF n > 0 /\ indexBuffer'.referenceCount = 0 THEN 1 ELSE indexBuffer.destroys
           /\ indexBuffer'.destroys <= 1

\* C28: initialize destroys every vertex array of the queue, decrements the
\* reference count of the index buffer they share once for each of them,
\* destroys the buffer in the call in which the count becomes zero and in no
\* other, never twice, and leaves the queue empty.
C28_CountedDestruction == [][C28_Step]_vars

\* C28 witness: two queued vertex arrays were the last two users of the index
\* buffer: both were destroyed, and the buffer with them, once.
C28_Witness ==
    /\ frameNumber = 1
    /\ vertexArraysToDestroy = <<>>
    /\ Cardinality(destroyedVertexArrays) = 2
    /\ indexBuffer = IndexBuffer(TRUE, 0, 1)

\* The pools and the commands of a frame as C29 has them: no more commands in
\* use than the pool holds, as many uniform maps as commands, the commands
\* emitted by the last endUpdate pairwise distinct members of the pool, and
\* updateForPick pushing none of them while a frame is assembled and all of
\* them, in the order they were emitted, otherwise.
C29_Pools ==
    /\ usedDrawCommands <= Len(drawCommands)
    /\ Len(drawCommands) = Len(uniformMaps)
    /\ \A i \in 1..Len(commandList) :
           /\ commandList[i] \in 1..Len(drawCommands)
           /\ \A j \in 1..Len(commandList) : i # j => commandList[i] # commandList[j]
    /\ PickCommandsFrom(0, <<>>) = IF framePhase = "updating" THEN <<>> ELSE commandList

\* The pools do not shrink.
C29_Step ==
    /\ Len(drawCommands') >= Len(drawCommands)
    /\ Len(uniformMaps') >= Len(uniformMaps)

\* C29: in every frame _usedDrawCommands is at most the size of the command
\* pool, the command pool and the uniform-map pool have the same length and
\* never shrink, the commands emitted in a frame are distinct pooled commands,
\* and updateForPick pushes the commands of the last endUpdate in their order,
\* and none between beginUpdate and endUpdate.
C29_PooledCommands == [](C29_Pools) /\ [][C29_Step]_vars

\* C29 witness: after a second frame that emitted one command while the pool
\* holds two, updateForPick has pushed the command of that frame.
C29_Witness ==
    /\ frameNumber = 2
    /\ framePhase = "idle"
    /\ Len(commandList) = 1
    /\ Len(drawCommands) = 2
    /\ pickCommandList = commandList

\* Whether a subset is the image of a tile's rectangle in the unit square of an
\* ancestor's rectangle: the ancestor's rectangle, scaled by the subset, is the
\* tile's.
ImageInUnitSquare(subset, myRectangle, ancestorRectangle) ==
    LET width == ancestorRectangle.east - ancestorRectangle.west
        height == ancestorRectangle.north - ancestorRectangle.south
    IN  /\ ancestorRectangle.west * SubsetOne + subset.x * width
               = myRectangle.west * SubsetOne
        /\ ancestorRectangle.south * SubsetOne + subset.y * height
               = myRectangle.south * SubsetOne
        /\ ancestorRectangle.west * SubsetOne + subset.z * width
               = myRectangle.east * SubsetOne
        /\ ancestorRectangle.south * SubsetOne + subset.w * height
               = myRectangle.north * SubsetOne

\* C27: with RENDER_ANCESTOR_SUBSET, every command emitted for a shown tile
\* that defers to its nearest renderable ancestor B is owned by B, is packed
\* from B's imagery and is given the tile's renderableTileSubset, which is the
\* image of the tile's rectangle in the unit square of B's rectangle as the
\* last showTileThisFrame call computed it, with 0 <= x < z <= 1 and
\* 0 <= y < w <= 1.
C27_AncestorSubset ==
    (missingTileStrategy = RENDER_ANCESTOR_SUBSET /\ framePhase = "idle")
    => \A i \in 1..Len(Emitted) :
           LET command == Emitted[i]
               tile == command.shown
               B == renderableTile[tile]
               subset == renderableTileSubset[tile]
           IN  B # 0
               => /\ command.owner = B
                  /\ vertexArray[B]
                  /\ \A k \in 1..Len(command.dayTextures) :
                         command.dayTextures[k] \in 1..Len(imagery[B])
                  /\ command.textureCoordinateSubset = tile
                  /\ ImageInUnitSquare(subset, Rectangle(tile), Rectangle(B))
                  /\ 0 <= subset.x /\ subset.x < subset.z /\ subset.z <= SubsetOne
                  /\ 0 <= subset.y /\ subset.y < subset.w /\ subset.w <= SubsetOne

\* C27 witness: the deepest tile was drawn in the second frame with the
\* geometry of its parent and a subset of it that is not symmetric.
C27_Witness ==
    /\ missingTileStrategy = RENDER_ANCESTOR_SUBSET
    /\ framePhase = "idle"
    /\ frameNumber = 2
    /\ renderableTile[NumTiles] = NumTiles - 1
    /\ \E i \in 1..Len(Emitted) :
           /\ Emitted[i].shown = NumTiles
           /\ Emitted[i].owner = NumTiles - 1
    /\ renderableTileSubset[NumTiles].x # renderableTileSubset[NumTiles].y

\* Whether the quadtree selected a tile in the current frame, and whether it
\* rendered it.
WasSelected(tile) == SelectionResultFrame(tile) = LastSelectionFrameNumber

WasRendered(tile) == WasSelected(tile) /\ SelectionResult(tile) = "RENDERED"

\* The strict ancestors of a quadtree tile.
RECURSIVE QuadtreeAncestors(_)
QuadtreeAncestors(tile) ==
    IF QuadtreeParent(tile) = 0 THEN {}
    ELSE {QuadtreeParent(tile)} \cup QuadtreeAncestors(QuadtreeParent(tile))

\* C24: when the adjacent tile was not selected in the current frame or was
\* kicked, the tiles found for the edge are the nearest ancestor of it that was
\* rendered in the current frame, alone, and none only if no ancestor was
\* rendered in the current frame.
C24_NearestRenderedAncestor ==
    LET start == edgeTiles.startTile
        rendered == {a \in QuadtreeAncestors(start) : WasRendered(a)}
    IN  (/\ edgeTiles.edge # "NONE"
         /\ start # 0
         /\ (~WasSelected(start) \/ SelectionResult(start) = "KICKED"))
        => edgeTiles.tiles =
               IF rendered = {} THEN <<>>
               ELSE <<CHOOSE a \in rendered : \A b \in rendered : b <= a>>

\* The place of a tile among the children of its parent on an edge, in the
\* order of the ring: on the east edge north then south, on the north edge west
\* then east, on the west edge south then north, on the south edge east then
\* west; 0 for a child that is not on the edge.
RingRank(edge, tile) ==
    LET sw == tile = southwestChild(QuadtreeParent(tile))
        se == tile = southeastChild(QuadtreeParent(tile))
        nw == tile = northwestChild(QuadtreeParent(tile))
        ne == tile = northeastChild(QuadtreeParent(tile))
    IN  CASE edge = "EAST" -> IF ne THEN 1 ELSE IF se THEN 2 ELSE 0
          [] edge = "NORTH" -> IF nw THEN 1 ELSE IF ne THEN 2 ELSE 0
          [] edge = "WEST" -> IF sw THEN 1 ELSE IF nw THEN 2 ELSE 0
          [] edge = "SOUTH" -> IF se THEN 1 ELSE IF sw THEN 2 ELSE 0

\* Whether a tile is the start tile or is reached from it through refined
\* tiles by steps to children on the edge.
RECURSIVE ReachedDown(_, _, _)
ReachedDown(tile, start, edge) ==
    IF tile = start THEN TRUE
    ELSE IF tile < start THEN FALSE
    ELSE /\ RingRank(edge, tile) # 0
         /\ WasSelected(QuadtreeParent(tile))
         /\ SelectionResult(QuadtreeParent(tile)) = "REFINED"
         /\ ReachedDown(QuadtreeParent(tile), start, edge)

\* The ring ranks of the steps from the start tile down to a tile below it.
RECURSIVE RingPath(_, _, _)
RingPath(tile, start, edge) ==
    IF tile <= start THEN <<>>
    ELSE Append(RingPath(QuadtreeParent(tile), start, edge), RingRank(edge, tile))

\* Whether the one path leaves the other towards the earlier child.
EarlierInRing(one, other) ==
    \E k \in 1..Len(one) :
        /\ k <= Len(other)
        /\ one[k] < other[k]
        /\ \A j \in 1..(k - 1) : one[j] = other[j]

\* C25: for an adjacent tile selected in the current frame and not kicked, the
\* tiles found are the tile itself if it was rendered, none if it was culled,
\* and if it was refined exactly the tiles rendered in the current frame that
\* are reached from it through refined tiles by steps to the two children on
\* the requested edge, each once, in the order of the ring; beyond a pole no
\* tile is found.
C25_RenderedAlongEdge ==
    LET start == edgeTiles.startTile
        edge == edgeTiles.edge
        tiles == edgeTiles.tiles
        expected == {t \in QuadTiles :
                        t # start /\ ReachedDown(t, start, edge) /\ WasRendered(t)}
    IN  edge # "NONE"
        => /\ start = 0 => tiles = <<>>
           /\ (start # 0 /\ WasSelected(start) /\ SelectionResult(start) # "KICKED")
              => CASE SelectionResult(start) = "RENDERED" -> tiles = <<start>>
                   [] SelectionResult(start) = "CULLED" -> tiles = <<>>
                   [] OTHER ->
                        /\ {tiles[i] : i \in 1..Len(tiles)} = expected
                        /\ Len(tiles) = Cardinality(expected)
                        /\ \A i \in 1..Len(tiles) : WasRendered(tiles[i])
                        /\ \A i, j \in 1..Len(tiles) :
                               i < j => EarlierInRing(RingPath(tiles[i], start, edge),
                                                      RingPath(tiles[j], start, edge))

\* C25 witness: along the north edge of a refined adjacent tile its northwest
\* child and, below its refined northeast child, two rendered children were
\* found, from west to east, while its southwest child was rendered too.
C25_Witness ==
    /\ edgeTiles.startTile = AdjacentTile
    /\ edgeTiles.edge = "NORTH"
    /\ WasRendered(southwestChild(AdjacentTile))
    /\ edgeTiles.tiles = <<northwestChild(AdjacentTile), northwestChild(DeepChild),
                           northeastChild(DeepChild)>>

\* A loaded-callback of the layer is pending on the tile.
PendingFor(tile, layer) ==
    \E layerId \in 1..NumLayers : loadedCallbacks[tile][layerId].layer = layer

\* The number of TileImagery in the run of the layer that starts at the first
\* TileImagery of the layer, 0 if the list has none of the layer.
FirstRunLength(tileImageryCollection, layer) ==
    LET ofLayer == {i \in 1..Len(tileImageryCollection) :
                        tileImageryCollection[i].layer = layer}
        first == CHOOSE i \in ofLayer : \A j \in ofLayer : i <= j
    IN  IF ofLayer = {} THEN 0
        ELSE Cardinality({i \in ofLayer : \A j \in first..i : j \in ofLayer})

\* The index of the last TileImagery of that run.
FirstRunEnd(tileImageryCollection, layer) ==
    LET ofLayer == {i \in 1..Len(tileImageryCollection) :
                        tileImageryCollection[i].layer = layer}
        first == CHOOSE i \in ofLayer : \A j \in ofLayer : i <= j
    IN  first + FirstRunLength(tileImageryCollection, layer) - 1

\* A reload of the layer on a tile that has TileImagery of the layer and no
\* pending callback for it, for which TileImagery is created: the new entries
\* follow the existing run, one callback for the layer is registered and the
\* tile is LOADING.
C30_Inserted ==
    \A layer \in Layers, created \in [Tiles -> 1..MaxSkeletons], tile \in Tiles :
        (/\ reload(layer, created)
         /\ FirstRunLength(imagery[tile], layer) > 0
         /\ ~PendingFor(tile, layer))
        => LET end == FirstRunEnd(imagery[tile], layer)
           IN  /\ Len(imagery'[tile]) = Len(imagery[tile]) + created[tile]
               /\ SubSeq(imagery'[tile], 1, end) = SubSeq(imagery[tile], 1, end)
               /\ SubSeq(imagery'[tile], end + created[tile] + 1, Len(imagery'[tile]))
                      = SubSeq(imagery[tile], end + 1, Len(imagery[tile]))
               /\ \A i \in (end + 1)..(end + created[tile]) :
                      /\ imagery'[tile][i].layer = layer
                      /\ \A j \in 1..Len(imagery[tile]) :
                             imagery[tile][j].createdBy # imagery'[tile][i].createdBy
               /\ Cardinality({layerId \in 1..NumLayers :
                                   loadedCallbacks'[tile][layerId].layer = layer}) = 1
               /\ tileState'[tile] = "LOADING"

\* A reload of the layer while a callback for it is pending on the tile
\* changes nothing on the tile.
C30_Pending ==
    \A layer \in Layers, created \in [Tiles -> 0..MaxSkeletons], tile \in Tiles :
        (reload(layer, created) /\ PendingFor(tile, layer))
        => /\ imagery'[tile] = imagery[tile]
           /\ loadedCallbacks'[tile] = loadedCallbacks[tile]
           /\ tileState'[tile] = tileState[tile]

\* A callback that returns true, and so is removed, has freed and removed the
\* first tileImageriesToFree TileImagery of its layer and nothing else, and
\* TileImagery of the layer remains.
C30_Freed ==
    \A tile \in Tiles, layerId \in 1..NumLayers, created \in 0..MaxSkeletons :
        (/\ tileReady(tile, layerId, created)
         /\ loadedCallbacks'[tile][layerId] = NoCallback)
        => LET callback == loadedCallbacks[tile][layerId]
               end == FirstRunEnd(imagery[tile], callback.layer)
               start == end - FirstRunLength(imagery[tile], callback.layer) + 1
               last == start + callback.tileImageriesToFree - 1
           IN  /\ FirstRunLength(imagery[tile], callback.layer)
                      > callback.tileImageriesToFree
               /\ freedImagery'[tile]
                      = freedImagery[tile] \o SubSeq(imagery[tile], start, last)
               /\ imagery'[tile] = SubSeq(imagery[tile], 1, start - 1)
                                       \o SubSeq(imagery[tile], last + 1, Len(imagery[tile]))

\* C30: on a loaded tile a reload of a layer's imagery provider puts the new
\* TileImagery of the layer directly after the existing run, registers one
\* loaded-callback for the layer and sets the tile to LOADING; a further reload
\* of the layer while that callback is pending changes nothing on the tile,
\* also after the layers were moved; and a callback that returns true has
\* freed and removed exactly the run counted at the reload, the new TileImagery
\* remaining.
C30_ReloadReplacesRun == [][C30_Inserted /\ C30_Pending /\ C30_Freed]_vars

====
